---- MODULE Spec2Model ----
(***************************************************************************)
(* Model of the legal-document assistant: placeholder detection            *)
(* (document-processor), the conversation orchestrator with its tiered     *)
(* value extraction (ai-client), validation and formatting.                *)
(*                                                                         *)
(* JavaScript strings are modelled as sequences of one-character strings,  *)
(* so that trimming, case folding, searching and the regular expressions   *)
(* of the source are computed character by character.                      *)
(***************************************************************************)
EXTENDS Integers, Sequences, FiniteSets, TLC

\* JavaScript null and undefined (distinct from every string).
null == <<"null">>
undefined == <<"undefined">>

----------------------------------------------------------------------------
\* String primitives of the JavaScript runtime used by the source.

UpperLetters == <<"A","B","C","D","E","F","G","H","I","J","K","L","M","N","O","P","Q","R","S","T","U","V","W","X","Y","Z">>
LowerLetters == <<"a","b","c","d","e","f","g","h","i","j","k","l","m","n","o","p","q","r","s","t","u","v","w","x","y","z">>
Digits == {"0","1","2","3","4","5","6","7","8","9"}

UpperSet == {UpperLetters[i] : i \in 1..26}
LowerSet == {LowerLetters[i] : i \in 1..26}
WordSet == UpperSet \cup LowerSet \cup Digits \cup {"_"}
SpaceSet == {" ", "\t", "\n", "\r"}

IsUpper(c) == c \in UpperSet
IsLower(c) == c \in LowerSet
IsDigit(c) == c \in Digits
\* \s of a regular expression, and the characters String.prototype.trim removes
IsSpace(c) == c \in SpaceSet
\* \w of a regular expression
IsWord(c) == c \in WordSet

UpperOf == [c \in LowerSet |-> UpperLetters[CHOOSE i \in 1..26 : LowerLetters[i] = c]]
LowerOf == [c \in UpperSet |-> LowerLetters[CHOOSE i \in 1..26 : UpperLetters[i] = c]]
UpperChar(c) == IF c \in LowerSet THEN UpperOf[c] ELSE c
LowerChar(c) == IF c \in UpperSet THEN LowerOf[c] ELSE c

toUpperCase(s) == [i \in 1..Len(s) |-> UpperChar(s[i])]
toLowerCase(s) == [i \in 1..Len(s) |-> LowerChar(s[i])]

Min(a, b) == IF a < b THEN a ELSE b
Max(a, b) == IF a > b THEN a ELSE b

\* s.substring(a - 1, b): the characters at the 1-based positions a..b that exist
Sub(s, a, b) == SubSeq(s, Max(a, 1), Min(b, Len(s)))

\* String.prototype.trim
trim(s) ==
  LET keep == {i \in 1..Len(s) : ~IsSpace(s[i])}
  IN IF keep = {} THEN <<>>
     ELSE Sub(s, CHOOSE i \in keep : \A j \in keep : i <= j,
                    CHOOSE i \in keep : \A j \in keep : i >= j)

\* 1-based position of the first occurrence of sub in s at or after from, 0 if none
indexOfFrom(s, sub, from) ==
  LET hits == {i \in from..(Len(s) - Len(sub) + 1) : Sub(s, i, i + Len(sub) - 1) = sub}
  IN IF hits = {} THEN 0 ELSE CHOOSE i \in hits : \A j \in hits : i <= j

\* String.prototype.includes
includes(s, sub) == indexOfFrom(s, sub, 1) # 0

\* JavaScript truthiness of a string-or-null value: null, undefined and "" are falsy
Truthy(v) == v # null /\ v # undefined /\ v # <<>>

----------------------------------------------------------------------------
\* document-processor: detectPlaceholders and its helpers

\* Position of the first "]" after position i, 0 if none
NextClose(text, i) == indexOfFrom(text, <<"]">>, i + 1)

\* /\[([^\]]+)\]/ matches at position i: "[", one or more characters other
\* than "]", then "]"
BracketMatchAt(text, i) == text[i] = "[" /\ NextClose(text, i) > i + 1

\* RegExp.prototype.exec of the global bracketPattern from lastIndex:
\* the leftmost match at or after from (1-based), 0 if none
BracketExec(text, from) ==
  LET hits == {i \in from..Len(text) : BracketMatchAt(text, i)}
  IN IF hits = {} THEN 0 ELSE CHOOSE i \in hits : \A j \in hits : i <= j

\* /^[_\s]+$/
IsBlankContent(content) ==
  content # <<>> /\ \A i \in 1..Len(content) : content[i] = "_" \/ IsSpace(content[i])

\* text.substring(max(0, index - 80), min(text.length, index + match.length + 20)).toLowerCase()
\* for the match that starts at 1-based position i and ends at the "]" at k
ContextBefore == 80
ContextAfter == 20
ContextOf(text, i, k) ==
  toLowerCase(Sub(text, Max(0, (i - 1) - ContextBefore) + 1, Min(Len(text), k + ContextAfter)))

\* content.toUpperCase().replace(/[^A-Z0-9]+/g, '_').replace(/^_+|_+$/g, '')
IsNameChar(c) == IsUpper(c) \/ IsDigit(c)
RECURSIVE CollapseRuns(_)
CollapseRuns(s) ==
  IF s = <<>> THEN <<>>
  ELSE IF IsNameChar(s[1]) THEN <<s[1]>> \o CollapseRuns(Tail(s))
  ELSE LET rest == CollapseRuns(Tail(s))
       IN IF Len(s) > 1 /\ ~IsNameChar(s[2]) THEN rest ELSE <<"_">> \o rest
StripUnderscores(s) ==
  LET keep == {i \in 1..Len(s) : s[i] # "_"}
  IN IF keep = {} THEN <<>>
     ELSE Sub(s, CHOOSE i \in keep : \A j \in keep : i <= j,
                    CHOOSE i \in keep : \A j \in keep : i >= j)
NormalizeName(content) == StripUnderscores(CollapseRuns(toUpperCase(content)))

\* word => word.charAt(0) + word.slice(1).toLowerCase(), joined with spaces,
\* over the words of a normalized name
TitleCase(name) ==
  [i \in 1..Len(name) |->
     IF name[i] = "_" THEN " "
     ELSE IF i = 1 \/ name[i - 1] = "_" THEN name[i]
     ELSE LowerChar(name[i])]

getPlaceholderDetails(name) ==
  LET lower == toLowerCase(name)
  IN IF includes(lower, <<"d","a","t","e">>) \/ includes(lower, <<"d","e","a","d","l","i","n","e">>)
       THEN [description |-> <<"D","a","t","e">>, type |-> "date"]
     ELSE IF includes(lower, <<"e","m","a","i","l">>) \/ includes(lower, <<"m","a","i","l">>)
       THEN [description |-> <<"E","m","a","i","l"," ","a","d","d","r","e","s","s">>, type |-> "email"]
     ELSE IF \/ includes(lower, <<"a","m","o","u","n","t">>) \/ includes(lower, <<"p","r","i","c","e">>)
             \/ includes(lower, <<"v","a","l","u","a","t","i","o","n">>) \/ includes(lower, <<"c","a","p">>)
             \/ includes(lower, <<"v","a","l","u","e">>) \/ includes(lower, <<"c","o","s","t">>)
       THEN [description |-> TitleCase(name), type |-> "number"]
     ELSE IF includes(lower, <<"s","t","a","t","e">>)
       THEN [description |-> <<"S","t","a","t","e">>, type |-> "text"]
     ELSE [description |-> TitleCase(name), type |-> "text"]

NoInference == [name |-> null, description |-> null, type |-> "none"]

\* An inference without rules
inferNothing(context) == NoInference

inferFromContext(context) ==
  IF includes(context, <<"c","o","m","p","a","n","y">>) /\ (includes(context, <<"n","a","m","e">>) \/ includes(context, <<"c","o","r","p","o","r","a","t","i","o","n">>))
    THEN [name |-> <<"C","O","M","P","A","N","Y","_","N","A","M","E">>, description |-> <<"C","o","m","p","a","n","y"," ","n","a","m","e">>, type |-> "text"]
  ELSE IF includes(context, <<"i","n","v","e","s","t","o","r">>) /\ includes(context, <<"n","a","m","e">>)
    THEN [name |-> <<"I","N","V","E","S","T","O","R","_","N","A","M","E">>, description |-> <<"I","n","v","e","s","t","o","r"," ","n","a","m","e">>, type |-> "text"]
  ELSE IF includes(context, <<"$">>) \/ includes(context, <<"p","u","r","c","h","a","s","e"," ","a","m","o","u","n","t">>) \/ includes(context, <<"i","n","v","e","s","t","m","e","n","t">>)
    THEN [name |-> <<"P","U","R","C","H","A","S","E","_","A","M","O","U","N","T">>, description |-> <<"I","n","v","e","s","t","m","e","n","t"," ","a","m","o","u","n","t">>, type |-> "number"]
  ELSE IF includes(context, <<"d","a","t","e">>) \/ includes(context, <<"d","a","y"," ","o","f">>)
    THEN [name |-> <<"D","A","T","E">>, description |-> <<"D","a","t","e">>, type |-> "date"]
  ELSE IF includes(context, <<"v","a","l","u","a","t","i","o","n"," ","c","a","p">>) \/ includes(context, <<"p","o","s","t","-","m","o","n","e","y">>)
    THEN [name |-> <<"V","A","L","U","A","T","I","O","N","_","C","A","P">>, description |-> <<"V","a","l","u","a","t","i","o","n"," ","c","a","p">>, type |-> "number"]
  ELSE IF includes(context, <<"s","t","a","t","e"," ","o","f">>) \/ includes(context, <<"i","n","c","o","r","p","o","r","a","t","e","d"," ","i","n">>)
    THEN [name |-> <<"S","T","A","T","E">>, description |-> <<"S","t","a","t","e">>, type |-> "text"]
  ELSE NoInference

\* The object literal stored in the map: it has no originalText property, so
\* reading placeholder.originalText yields undefined.
NewPlaceholder(name, type, description) ==
  [name |-> name, originalText |-> undefined, value |-> null,
   type |-> type, description |-> description]

\* What one loop iteration derives from the match at i (closing bracket at k):
\* the placeholder it would store, or skip
Skip == [skip |-> TRUE]
\* Mutation of ResolveMatch: a blank field without inference is kept under a
\* default name
ResolveKeepingBlank(text, i, k) ==
  LET OfContent(content) ==
        IF content # <<>> /\ IsBlankContent(content)
             /\ inferFromContext(ContextOf(text, i, k)) = NoInference
        THEN [skip |-> FALSE, field |-> NewPlaceholder(<<"F","I","E","L","D">>, "text", <<"F","i","e","l","d">>)]
        ELSE Skip
  IN OfContent(trim(Sub(text, i + 1, k - 1)))

ResolveMatch(text, i, k) ==
  LET Named(name) ==
        IF name = <<>> THEN Skip
        ELSE LET Field(details) ==
                   [skip |-> FALSE,
                    field |-> NewPlaceholder(name, details.type, details.description)]
             IN Field(getPlaceholderDetails(name))
      Blank(inference) ==
        IF inference = NoInference THEN Skip
        ELSE [skip |-> FALSE,
              field |-> NewPlaceholder(inference.name, inference.type, inference.description)]
      OfContent(content) ==
        IF content = <<>> THEN Skip
        ELSE IF IsBlankContent(content) THEN Blank(inferFromContext(ContextOf(text, i, k)))
        ELSE Named(NormalizeName(content))
  IN OfContent(trim(Sub(text, i + 1, k - 1)))

\* Map.has on the insertion-ordered map, kept as the sequence of its values
MapHas(map, name) == \E j \in 1..Len(map) : map[j].name = name

\* Mutation of MapAdd: a new name is put at the front of the map
MapAddFront(map, field) == IF MapHas(map, field.name) THEN map ELSE <<field>> \o map

\* if (!placeholders.has(name)) placeholders.set(name, {...})
MapAdd(map, field) == IF MapHas(map, field.name) THEN map ELSE Append(map, field)

\* The while loop over bracketPattern.exec(text)
RECURSIVE DetectLoop(_, _, _, _)
DetectLoop(text, lastIndex, map, seenPositions) ==
  LET Store(i, k, r) ==
        DetectLoop(text, k + 1, IF r.skip THEN map ELSE MapAdd(map, r.field),
                   seenPositions \cup {i})
      Iteration(i, k) ==
        IF i \in seenPositions THEN DetectLoop(text, k + 1, map, seenPositions)
        ELSE Store(i, k, ResolveMatch(text, i, k))
      Exec(i) == IF i = 0 THEN map ELSE Iteration(i, NextClose(text, i))
  IN Exec(BracketExec(text, lastIndex))

detectPlaceholders(text) == DetectLoop(text, 1, <<>>, {})

----------------------------------------------------------------------------
\* Numbers and dates of the JavaScript runtime

DigitSeq == <<"0","1","2","3","4","5","6","7","8","9">>
DigitVal(c) == (CHOOSE i \in 1..10 : DigitSeq[i] = c) - 1
AllDigits(s) == \A i \in 1..Len(s) : IsDigit(s[i])

RECURSIVE DigitsToNat(_)
DigitsToNat(s) ==
  IF s = <<>> THEN 0 ELSE DigitsToNat(Sub(s, 1, Len(s) - 1)) * 10 + DigitVal(s[Len(s)])

RECURSIVE NatToDigits(_)
NatToDigits(n) ==
  IF n < 10 THEN <<DigitSeq[n + 1]>> ELSE NatToDigits(n \div 10) \o <<DigitSeq[(n % 10) + 1]>>

\* Length of the longest run of characters satisfying the class, starting at p
RECURSIVE DigitRun(_, _)
DigitRun(s, p) == IF p <= Len(s) /\ IsDigit(s[p]) THEN 1 + DigitRun(s, p + 1) ELSE 0
RECURSIVE SpaceRun(_, _)
SpaceRun(s, p) == IF p <= Len(s) /\ IsSpace(s[p]) THEN 1 + SpaceRun(s, p + 1) ELSE 0
RECURSIVE LowerRun(_, _)
LowerRun(s, p) == IF p <= Len(s) /\ IsLower(s[p]) THEN 1 + LowerRun(s, p + 1) ELSE 0
RECURSIVE NumCharRun(_, _)
NumCharRun(s, p) ==
  IF p <= Len(s) /\ (IsDigit(s[p]) \/ s[p] = ",") THEN 1 + NumCharRun(s, p + 1) ELSE 0

\* parseFloat: leading white space, an optional sign, then the longest prefix
\* digits[.digits] or .digits; NaN when there is none. (Exponents and
\* "Infinity" are outside the inputs enumerated below.)
NaN == [nan |-> TRUE, neg |-> FALSE, int |-> 0, frac |-> <<>>]
parseFloat(str) ==
  LET p0 == 1 + SpaceRun(str, 1)
      signed == p0 <= Len(str) /\ str[p0] \in {"-", "+"}
      p1 == IF signed THEN p0 + 1 ELSE p0
      n == DigitRun(str, p1)
      dot == p1 + n <= Len(str) /\ str[p1 + n] = "."
      m == IF dot THEN DigitRun(str, p1 + n + 1) ELSE 0
  IN IF n = 0 /\ m = 0 THEN NaN
     ELSE [nan |-> FALSE,
           neg |-> signed /\ str[p0] = "-",
           int |-> DigitsToNat(Sub(str, p1, p1 + n - 1)),
           frac |-> Sub(str, p1 + n + 1, p1 + n + m)]

IsZero(num) == num.int = 0 /\ \A i \in 1..Len(num.frac) : num.frac[i] = "0"
\* num <= 0
NotPositive(num) == num.neg \/ IsZero(num)
\* num < bound, for a positive integer bound
LessThan(num, bound) == num.neg \/ num.int < bound

\* value.replace(/,/g, '')
RECURSIVE StripCommas(_)
StripCommas(s) ==
  IF s = <<>> THEN <<>>
  ELSE IF s[1] = "," THEN StripCommas(Tail(s)) ELSE <<s[1]>> \o StripCommas(Tail(s))

\* Thousands grouping of the digits of an integer
RECURSIVE GroupThousands(_)
GroupThousands(ds) ==
  IF Len(ds) <= 3 THEN ds
  ELSE GroupThousands(Sub(ds, 1, Len(ds) - 3)) \o <<",">> \o Sub(ds, Len(ds) - 2, Len(ds))

\* num.toLocaleString('en-US', {minimumFractionDigits: 0, maximumFractionDigits: 2}):
\* rounded half away from zero to hundredths, trailing zeros dropped
MinimumFractionDigits == 0
MaximumFractionDigits == 2
toLocaleString(num) ==
  LET f == num.frac \o <<"0","0","0">>
      hundredths == num.int * 100 + DigitVal(f[1]) * 10 + DigitVal(f[2])
      rounded == IF DigitVal(f[MaximumFractionDigits + 1]) >= 5 THEN hundredths + 1 ELSE hundredths
      ip == rounded \div 100
      d1 == (rounded % 100) \div 10
      d2 == rounded % 10
      fracPart == IF d1 = 0 /\ d2 = 0 THEN <<>>
                  ELSE IF d2 = 0 THEN <<".", DigitSeq[d1 + 1]>>
                  ELSE <<".", DigitSeq[d1 + 1], DigitSeq[d2 + 1]>>
      sign == IF num.neg /\ rounded # 0 THEN <<"-">> ELSE <<>>
  IN sign \o GroupThousands(NatToDigits(ip)) \o fracPart

\* Days of a month of the Gregorian calendar
IsLeap(y) == (y % 4 = 0 /\ y % 100 # 0) \/ y % 400 = 0
DaysInMonth(y, m) ==
  IF m = 2 THEN (IF IsLeap(y) THEN 29 ELSE 28)
  ELSE IF m \in {4, 6, 9, 11} THEN 30 ELSE 31

InvalidDate == [valid |-> FALSE, year |-> 0, month |-> 0, day |-> 0]

\* The date the engine's legacy parser composes from month, day and year
\* numbers: the month must be 1..12 and the day 1..31; a two-digit year value
\* is moved into 1950..2049; a day beyond the month's length rolls over into
\* the next month.
ComposeDate(m, d, y) ==
  LET year == IF y < 50 THEN y + 2000 ELSE IF y < 100 THEN y + 1900 ELSE y
  IN IF m < 1 \/ m > 12 \/ d < 1 \/ d > 31 THEN InvalidDate
     ELSE IF d <= DaysInMonth(year, m)
       THEN [valid |-> TRUE, year |-> year, month |-> m, day |-> d]
     ELSE IF m = 12
       THEN [valid |-> TRUE, year |-> year + 1, month |-> 1, day |-> d - DaysInMonth(year, m)]
     ELSE [valid |-> TRUE, year |-> year, month |-> m + 1, day |-> d - DaysInMonth(year, m)]

MonthPrefixes ==
  << <<"j","a","n">>, <<"f","e","b">>, <<"m","a","r">>, <<"a","p","r">>, <<"m","a","y">>, <<"j","u","n">>, <<"j","u","l">>, <<"a","u","g">>, <<"s","e","p">>, <<"o","c","t">>, <<"n","o","v">>, <<"d","e","c">> >>
\* Number of the month a word names (by its first three letters), 0 if none
MonthOf(word) ==
  LET w == toLowerCase(Sub(word, 1, 3))
  IN IF \E i \in 1..12 : MonthPrefixes[i] = w
       THEN CHOOSE i \in 1..12 : MonthPrefixes[i] = w
     ELSE 0

\* String(n).padStart(2, '0')
PadStart2(n) == IF n < 10 THEN <<"0">> \o NatToDigits(n) ELSE NatToDigits(n)

\* `${month}/${day}/${year}` of a valid date
FormatDate(date) ==
  PadStart2(date.month) \o <<"/">> \o PadStart2(date.day) \o <<"/">> \o NatToDigits(date.year)

\* new Date(str) for the shapes the source hands it.  Three numbers a, b, c
\* with no month name are month/day/year unless a is no day of a month
\* (then year/month/day).
DateFromNumbers(a, b, c) ==
  IF a >= 1 /\ a <= 31 THEN ComposeDate(a, b, c) ELSE ComposeDate(b, c, a)
\* A word followed by two numbers: a month name gives month, day, year (or
\* year, day when the first number is no day of a month); any other word is
\* ignored and the numbers are month and day of the default year.
DateFromWord(word, a, b) ==
  LET m == MonthOf(word)
  IN IF m = 0 THEN ComposeDate(a, b, 1)
     ELSE IF a >= 1 /\ a <= 31 THEN ComposeDate(m, a, b)
     ELSE ComposeDate(m, b, a)

----------------------------------------------------------------------------
\* ai-client: the regular expressions of extractValueFromMessage

WordAt(s, i) == i >= 1 /\ i <= Len(s) /\ IsWord(s[i])
\* \b between s[p-1] and s[p]
Boundary(s, p) == WordAt(s, p - 1) # WordAt(s, p)

MinOf(S) == CHOOSE i \in S : \A j \in S : i <= j
MaxOf(S) == CHOOSE i \in S : \A j \in S : i >= j

NoMatch == [found |-> FALSE, from |-> 0, to |-> 0]
Found(a, b) == [found |-> TRUE, from |-> a, to |-> b]

\* /\$\s*([0-9,]+(?:\.[0-9]{2})?)/ : the capture group of the leftmost match
DollarMatch(s) ==
  LET Cents(q, e) ==
        Found(q, IF e + 3 <= Len(s) /\ s[e + 1] = "." /\ IsDigit(s[e + 2]) /\ IsDigit(s[e + 3])
                   THEN e + 3 ELSE e)
      Amount(q) == Cents(q, q + NumCharRun(s, q) - 1)
      At(i) == Amount(i + 1 + SpaceRun(s, i + 1))
      Leftmost(starts) == IF starts = {} THEN NoMatch ELSE At(MinOf(starts))
  IN Leftmost({i \in 1..Len(s) :
                 s[i] = "$" /\ NumCharRun(s, i + 1 + SpaceRun(s, i + 1)) >= 1})

\* /\b([0-9,]+(?:\.[0-9]+)?)\b/ : ends of the matches that start at i, as
\* pairs <<end of the [0-9,]+ run, end of the match>>
NumberEnds(s, i) ==
  IF ~Boundary(s, i) THEN {}
  ELSE { ef \in UNION { {<<e, e>>} \cup
                          (IF e + 1 <= Len(s) /\ s[e + 1] = "."
                             THEN {<<e, e + 1 + n>> : n \in 1..DigitRun(s, e + 2)}
                             ELSE {})
                        : e \in i..(i + NumCharRun(s, i) - 1) } :
           Boundary(s, ef[2] + 1) }
\* the leftmost match, greedy: the longest run, then the longest fraction
NumberMatch(s) ==
  LET Fraction(i, ends, e) == Found(i, MaxOf({ef[2] : ef \in {x \in ends : x[1] = e}}))
      Run(i, ends) == Fraction(i, ends, MaxOf({ef[1] : ef \in ends}))
      At(i) == Run(i, NumberEnds(s, i))
      Leftmost(starts) == IF starts = {} THEN NoMatch ELSE At(MinOf(starts))
  IN Leftmost({i \in 1..Len(s) : NumberEnds(s, i) # {}})

\* /\b(\d{1,2}SEP\d{1,2}SEP\d{4})\b/ at position i: the lengths <<a, b>> of
\* the two leading digit groups
NumericDateAt(s, i, sep) ==
  { ab \in {1, 2} \X {1, 2} :
      LET a == ab[1]
          b == ab[2]
          last == i + a + b + 5
      IN /\ Boundary(s, i)
         /\ last <= Len(s)
         /\ AllDigits(Sub(s, i, i + a - 1))
         /\ s[i + a] = sep
         /\ AllDigits(Sub(s, i + a + 1, i + a + b))
         /\ s[i + a + b + 1] = sep
         /\ AllDigits(Sub(s, i + a + b + 2, last))
         /\ Boundary(s, last + 1) }

NoDateMatch == [found |-> FALSE, date |-> InvalidDate]

\* The leftmost match of the numeric pattern and new Date(match[1])
NumericDateMatch(s, sep) ==
  LET Parsed(i, a, b) ==
        [found |-> TRUE,
         date |-> DateFromNumbers(DigitsToNat(Sub(s, i, i + a - 1)),
                                  DigitsToNat(Sub(s, i + a + 1, i + a + b)),
                                  DigitsToNat(Sub(s, i + a + b + 2, i + a + b + 5)))]
      Groups(i, ab) == Parsed(i, ab[1], ab[2])
      At(i) == Groups(i, CHOOSE x \in NumericDateAt(s, i, sep) : TRUE)
      Leftmost(starts) == IF starts = {} THEN NoDateMatch ELSE At(MinOf(starts))
  IN Leftmost({i \in 1..Len(s) : NumericDateAt(s, i, sep) # {}})

IsLetter(c) == IsUpper(c) \/ IsLower(c)
RECURSIVE LetterRun(_, _)
LetterRun(s, p) == IF p <= Len(s) /\ IsLetter(s[p]) THEN 1 + LetterRun(s, p + 1) ELSE 0

\* /\b([A-Z][a-z]{2,8}\s+\d{1,2},?\s+\d{4})\b/i at position i
TextualDateAt(s, i) ==
  LET Year(p5) == DigitRun(s, p5) >= 4 /\ Boundary(s, p5 + 4)
      Gap(p4, sp2) == sp2 >= 1 /\ Year(p4 + sp2)
      Comma(p4) == Gap(p4, SpaceRun(s, p4))
      Day(p2, d) ==
        d \in {1, 2} /\ Comma(IF p2 + d <= Len(s) /\ s[p2 + d] = "," THEN p2 + d + 1 ELSE p2 + d)
      Spaces(p1, sp1) == sp1 >= 1 /\ Day(p1 + sp1, DigitRun(s, p1 + sp1))
      Word(w) == w >= 3 /\ w <= 9 /\ Spaces(i + w, SpaceRun(s, i + w))
  IN Boundary(s, i) /\ Word(LetterRun(s, i))

TextualDateMatch(s) ==
  LET Parsed(i, w, p2, d, p5) ==
        [found |-> TRUE,
         date |-> DateFromWord(Sub(s, i, i + w - 1),
                               DigitsToNat(Sub(s, p2, p2 + d - 1)),
                               DigitsToNat(Sub(s, p5, p5 + 3)))]
      Year(i, w, p2, d, p4) == Parsed(i, w, p2, d, p4 + SpaceRun(s, p4))
      Day(i, w, p2, d) ==
        Year(i, w, p2, d, IF s[p2 + d] = "," THEN p2 + d + 1 ELSE p2 + d)
      Spaces(i, w, p2) == Day(i, w, p2, DigitRun(s, p2))
      Word(i, w) == Spaces(i, w, i + w + SpaceRun(s, i + w))
      Leftmost(starts) ==
        IF starts = {} THEN NoDateMatch ELSE Word(MinOf(starts), LetterRun(s, MinOf(starts)))
  IN Leftmost({i \in 1..Len(s) : TextualDateAt(s, i)})

\* The loop over datePatterns: the first pattern that matches and whose match
\* parses to a valid date
ExtractDate(s) ==
  LET FirstValid(m1, m2, m3) ==
        IF m1.found /\ m1.date.valid THEN FormatDate(m1.date)
        ELSE IF m2.found /\ m2.date.valid THEN FormatDate(m2.date)
        ELSE IF m3.found /\ m3.date.valid THEN FormatDate(m3.date)
        ELSE null
  IN FirstValid(NumericDateMatch(s, "/"), NumericDateMatch(s, "-"), TextualDateMatch(s))

\* s starts (case-insensitively) with the phrase followed by white space
StartsWithPhrase(s, phrase) ==
  /\ Len(s) > Len(phrase)
  /\ toLowerCase(Sub(s, 1, Len(phrase))) = phrase
  /\ IsSpace(s[Len(phrase) + 1])

\* s.replace(/^(p1|p2|...)\s+/i, '') for alternatives given in the order of
\* the regular expression
StripLeading(s, phrases) ==
  LET hits == {j \in 1..Len(phrases) : StartsWithPhrase(s, phrases[j])}
  IN IF hits = {} THEN s
     ELSE LET ph == phrases[MinOf(hits)]
              n == Len(ph) + SpaceRun(s, Len(ph) + 1)
          IN Sub(s, n + 1, Len(s))

\* it'?s? expands to its four spellings, the greedy ones first
FillerWords ==
  << <<"i","t","'","s">>, <<"i","t","'">>, <<"i","t","s">>, <<"i","t">>, <<"t","h","e">>, <<"m","y">>, <<"o","u","r">>, <<"i","s">>, <<"a","r","e">>, <<"w","i","l","l"," ","b","e">>, <<"s","h","o","u","l","d"," ","b","e">> >>
FillerPhrases == << <<"c","o","m","p","a","n","y"," ","n","a","m","e"," ","i","s">>, <<"i","n","v","e","s","t","o","r"," ","n","a","m","e"," ","i","s">>, <<"n","a","m","e"," ","i","s">> >>

\* .replace(/[.!?]$/g, '')
StripFinalPunctuation(s) ==
  IF s # <<>> /\ s[Len(s)] \in {".", "!", "?"} THEN Sub(s, 1, Len(s) - 1) ELSE s

CleanMessage(trimmedMsg) ==
  trim(StripFinalPunctuation(StripLeading(StripLeading(trimmedMsg, FillerWords), FillerPhrases)))

IsQuote(c) == c = "\"" \/ c = "'"
\* /["']([^"']+)["']/ : the capture group of the leftmost match
QuotedMatch(s) ==
  LET closeOf(i) == LET later == {k \in (i + 1)..Len(s) : IsQuote(s[k])}
                    IN IF later = {} THEN 0 ELSE MinOf(later)
      starts == {i \in 1..Len(s) : IsQuote(s[i]) /\ closeOf(i) > i + 1}
  IN IF starts = {} THEN NoMatch
     ELSE Found(MinOf(starts) + 1, closeOf(MinOf(starts)) - 1)

\* [A-Z][a-z]+ at p: the position after the word, 0 if there is none.  (The
\* run of lower-case letters is taken whole: every continuation of the
\* patterns below needs a non-letter next.)
CapWordEnd(s, p) ==
  IF p <= Len(s) /\ IsUpper(s[p]) /\ LowerRun(s, p + 1) >= 1
    THEN p + 1 + LowerRun(s, p + 1)
  ELSE 0

CorporateSuffixes == << <<"I","n","c">>, <<"L","L","C">>, <<"C","o","r","p">>, <<"L","t","d">> >>
\* (?:\s+(?:Inc|LLC|Corp|Ltd)\.?)?\b at q (the position after a word):
\* the position after the match, 0 if the final \b fails
SuffixEnd(s, q) ==
  LET After(sp, hits, e) ==
        IF sp >= 1 /\ hits # {} /\ e <= Len(s) /\ s[e] = "." /\ Boundary(s, e + 1) THEN e + 1
        ELSE IF sp >= 1 /\ hits # {} /\ Boundary(s, e) THEN e
        ELSE IF Boundary(s, q) THEN q
        ELSE 0
      Suffix(sp, p, hits) == After(sp, hits, p + Len(CorporateSuffixes[MinOf(hits)]))
      Spaces(sp) ==
        Suffix(sp, q + sp,
               {j \in 1..Len(CorporateSuffixes) :
                  Sub(s, q + sp, q + sp + Len(CorporateSuffixes[j]) - 1) = CorporateSuffixes[j]})
  IN Spaces(SpaceRun(s, q))

\* (?:\s+[A-Z][a-z]+)*(?:suffix)?\b at q: the position after the match the
\* backtracking engine finds, 0 if none
RECURSIVE NameRest(_, _)
NameRest(s, q) ==
  LET Longest(more) == IF more # 0 THEN more ELSE SuffixEnd(s, q)
      Word(w) == Longest(IF w # 0 THEN NameRest(s, w) ELSE 0)
      Spaces(sp) == Word(IF sp >= 1 THEN CapWordEnd(s, q + sp) ELSE 0)
  IN Spaces(SpaceRun(s, q))

\* /\b([A-Z][a-z]+(?:\s+[A-Z][a-z]+)*(?:\s+(?:Inc|LLC|Corp|Ltd)\.?)?)\b/
NameEndAt(s, i) ==
  LET First(e) == IF e # 0 THEN NameRest(s, e) ELSE 0
  IN IF Boundary(s, i) THEN First(CapWordEnd(s, i)) ELSE 0
NameMatch(s) ==
  LET At(i) == Found(i, NameEndAt(s, i) - 1)
      Leftmost(starts) == IF starts = {} THEN NoMatch ELSE At(MinOf(starts))
  IN Leftmost({i \in 1..Len(s) : NameEndAt(s, i) # 0})

\* /\b([A-Z]{2})\b/
StateCodeMatch(s) ==
  LET At(i) == Found(i, i + 1)
      Leftmost(starts) == IF starts = {} THEN NoMatch ELSE At(MinOf(starts))
  IN Leftmost({i \in 1..(Len(s) - 1) :
                 /\ Boundary(s, i) /\ IsUpper(s[i]) /\ IsUpper(s[i + 1])
                 /\ Boundary(s, i + 2)})

\* /\b([A-Z][a-z]+(?:\s+[A-Z][a-z]+)?)\b/
StateNameEndAt(s, i) ==
  LET Longest(e1, e2) ==
        IF e2 # 0 /\ Boundary(s, e2) THEN e2
        ELSE IF e1 # 0 /\ Boundary(s, e1) THEN e1
        ELSE 0
      Second(e1, sp) == Longest(e1, IF e1 # 0 /\ sp >= 1 THEN CapWordEnd(s, e1 + sp) ELSE 0)
      First(e1) == Second(e1, SpaceRun(s, e1))
  IN First(IF Boundary(s, i) THEN CapWordEnd(s, i) ELSE 0)
StateNameMatch(s) ==
  LET At(i) == Found(i, StateNameEndAt(s, i) - 1)
      Leftmost(starts) == IF starts = {} THEN NoMatch ELSE At(MinOf(starts))
  IN Leftmost({i \in 1..Len(s) : StateNameEndAt(s, i) # 0})

Group(s, m) == Sub(s, m.from, m.to)

NameLengthLimit == 100
TextLengthLimit == 200

\* Tier 1: pattern matching on the message for the current placeholder
extractValueFromMessage(message, placeholder) ==
  LET Dollar(trimmedMsg, m) == StripCommas(Group(trimmedMsg, m))
      Number(trimmedMsg, dollarMatch, numberMatch) ==
        IF dollarMatch.found THEN Dollar(trimmedMsg, dollarMatch)
        ELSE IF numberMatch.found THEN Dollar(trimmedMsg, numberMatch)
        ELSE null
      Text(cleaned, isName, isState, quotedMatch, nameMatch, stateMatch, stateNameMatch) ==
        IF quotedMatch.found THEN trim(Group(cleaned, quotedMatch))
        ELSE IF isName /\ nameMatch.found THEN Group(cleaned, nameMatch)
        ELSE IF isName /\ Len(cleaned) > 0 /\ Len(cleaned) < NameLengthLimit THEN cleaned
        ELSE IF isState /\ stateMatch.found THEN Group(cleaned, stateMatch)
        ELSE IF isState /\ stateNameMatch.found THEN Group(cleaned, stateNameMatch)
        ELSE IF Len(cleaned) > 0 /\ Len(cleaned) < TextLengthLimit THEN cleaned
        ELSE null
      Cleaned(cleaned) ==
        Text(cleaned, includes(placeholder.name, <<"N","A","M","E">>), includes(placeholder.name, <<"S","T","A","T","E">>),
             QuotedMatch(cleaned), NameMatch(cleaned), StateCodeMatch(cleaned),
             StateNameMatch(cleaned))
      Trimmed(trimmedMsg) ==
        IF placeholder.type = "number"
          THEN Number(trimmedMsg, DollarMatch(trimmedMsg), NumberMatch(trimmedMsg))
        ELSE IF placeholder.type = "date" THEN ExtractDate(trimmedMsg)
        ELSE IF placeholder.type = "text" THEN Cleaned(CleanMessage(trimmedMsg))
        ELSE null
  IN Trimmed(trim(message))

----------------------------------------------------------------------------
\* ai-client: validateValue and formatValue

validStates ==
  { <<"A","L">>, <<"A","K">>, <<"A","Z">>, <<"A","R">>, <<"C","A">>, <<"C","O">>, <<"C","T">>, <<"D","E">>, <<"F","L">>, <<"G","A">>, <<"H","I">>, <<"I","D">>, <<"I","L">>, <<"I","N">>,
    <<"I","A">>, <<"K","S">>, <<"K","Y">>, <<"L","A">>, <<"M","E">>, <<"M","D">>, <<"M","A">>, <<"M","I">>, <<"M","N">>, <<"M","S">>, <<"M","O">>, <<"M","T">>, <<"N","E">>, <<"N","V">>,
    <<"N","H">>, <<"N","J">>, <<"N","M">>, <<"N","Y">>, <<"N","C">>, <<"N","D">>, <<"O","H">>, <<"O","K">>, <<"O","R">>, <<"P","A">>, <<"R","I">>, <<"S","C">>, <<"S","D">>, <<"T","N">>,
    <<"T","X">>, <<"U","T">>, <<"V","T">>, <<"V","A">>, <<"W","A">>, <<"W","V">>, <<"W","I">>, <<"W","Y">>, <<"D","C">> }

\* /^\d{1,2}\/\d{1,2}\/\d{4}$/
MatchesDatePattern(value) ==
  \E ab \in NumericDateAt(value, 1, "/") : ab[1] + ab[2] + 6 = Len(value)

\* new Date(value) of a value that matches the date pattern
DateOfValue(value) == NumericDateMatch(value, "/").date

AmountMinimum == 1000
MinTextLength == 2
StateCodeLength == 2

Valid == [valid |-> TRUE, feedback |-> "none"]
Invalid(why) == [valid |-> FALSE, feedback |-> why]

\* A validation that accepts every value
acceptEveryValue(value, placeholder) == Valid

validateValue(value, placeholder) ==
  LET Checked(num) ==
        IF placeholder.type = "number" /\ num.nan
          THEN Invalid("That does not look like a valid number.")
        ELSE IF placeholder.type = "number" /\ NotPositive(num)
          THEN Invalid("The amount should be greater than zero.")
        ELSE IF /\ placeholder.type = "number"
                /\ includes(placeholder.name, <<"A","M","O","U","N","T">>)
                /\ LessThan(num, AmountMinimum)
          THEN Invalid("That seems quite low for an investment amount.")
        ELSE IF placeholder.type = "date" /\ ~MatchesDatePattern(value)
          THEN Invalid("Please use MM/DD/YYYY format for the date.")
        ELSE IF placeholder.type = "date" /\ ~DateOfValue(value).valid
          THEN Invalid("That does not look like a valid date.")
        ELSE IF /\ placeholder.type = "text"
                /\ includes(placeholder.name, <<"S","T","A","T","E">>)
                /\ Len(value) = StateCodeLength
                /\ toUpperCase(value) \notin validStates
          THEN Invalid("That is not a valid US state code.")
        ELSE IF placeholder.type = "text" /\ Len(value) < MinTextLength
          THEN Invalid("That seems too short.")
        ELSE Valid
  IN Checked(parseFloat(StripCommas(value)))

formatValue(value, placeholder) ==
  LET Number(num) == IF ~num.nan THEN toLocaleString(num) ELSE trim(value)
  IN IF placeholder.type = "number" THEN Number(parseFloat(StripCommas(value)))
     ELSE IF placeholder.type = "state" THEN toUpperCase(value)
     ELSE trim(value)

\* The inline formatting of the revision without formatValue: parseFloat of
\* the extracted value as it is, and no trimming
formatInline(value, placeholder) ==
  LET Number(num) == IF ~num.nan THEN toLocaleString(num) ELSE value
  IN IF placeholder.type = "number" THEN Number(parseFloat(value)) ELSE value

----------------------------------------------------------------------------
\* ai-client: the external capability (Tier 2 and Tier 3)

\* What one fetch of the Cloudflare endpoint can produce.  failure is the
\* environment's own classification of the reply: TRUE when the reply carries
\* no usable extracted value.
Reply(kind, txt, failure) == [kind |-> kind, text |-> txt, failure |-> failure]

AIExtractionReplies ==
  { Reply("fetchRejects", <<>>, TRUE),       \* transport error or timeout
    Reply("notOk", <<>>, TRUE),              \* non-OK HTTP status
    Reply("jsonRejects", <<>>, TRUE),        \* body is not JSON
    Reply("noResult", <<>>, TRUE),           \* JSON without result.response
    Reply("nonString", <<>>, TRUE),          \* result.response is not a string
    Reply("ok", <<"U","N","C","L","E","A","R">>, TRUE),
    Reply("ok", <<"E","X","T","R","A","C","T","E","D",":">>, TRUE),
    Reply("ok", <<"E","X","T","R","A","C","T","E","D",":"," "," ","\n","C","A">>, FALSE),
    Reply("ok", <<"E","X","T","R","A","C","T","E","D",":"," ","5","0","0","0","\n","a","s"," ","r","e","q","u","e","s","t","e","d">>, FALSE),
    Reply("ok", <<"E","X","T","R","A","C","T","E","D",":","C","A">>, FALSE),
    Reply("ok", <<"T","h","e"," ","v","a","l","u","e"," ","i","s"," ","E","X","T","R","A","C","T","E","D",":","z","z"," ","E","X","T","R","A","C","T","E","D",":","C","A">>, FALSE),
    Reply("ok", <<"E","X","T","R","A","C","T","E","D",":","0","2","/","3","0","/","2","0","2","4">>, FALSE),
    Reply("ok", <<"E","X","T","R","A","C","T","E","D",":","a","@","b",".","c","o">>, FALSE) }

AIClarificationReplies ==
  { Reply("fetchRejects", <<>>, TRUE),
    Reply("notOk", <<>>, TRUE),
    Reply("noResult", <<>>, TRUE),
    Reply("nonString", <<>>, TRUE),
    Reply("ok", <<" "," ">>, TRUE),
    Reply("ok", <<" ","W","h","i","c","h"," ","v","a","l","u","e"," ","s","h","o","u","l","d"," ","I"," ","u","s","e","?"," ">>, FALSE) }

NoReply == Reply("none", <<>>, FALSE)

\* The outcome of an async function: it throws, or it returns a value
Threw == [threw |-> TRUE, isString |-> FALSE, value |-> null]
Returned(v) == [threw |-> FALSE, isString |-> TRUE, value |-> v]
ReturnedNonString == [threw |-> FALSE, isString |-> FALSE, value |-> null]

\* callCloudflareAI, given what the fetch produces: it rethrows every error
\* and returns data.result?.response || ''
callCloudflareAI(enabled, reply) ==
  IF ~enabled THEN Threw
  ELSE IF reply.kind \in {"fetchRejects", "notOk", "jsonRejects"} THEN Threw
  ELSE IF reply.kind = "noResult" THEN Returned(<<>>)
  ELSE IF reply.kind = "nonString" THEN ReturnedNonString
  ELSE Returned(reply.text)

ExtractedMarker == <<"E","X","T","R","A","C","T","E","D",":">>

\* aiResponse.split('EXTRACTED:')[1].trim().split('\n')[0].trim()
AfterMarker(aiResponse) ==
  LET Line(piece, newline) == trim(Sub(piece, 1, IF newline = 0 THEN Len(piece) ELSE newline - 1))
      Piece(piece) == Line(piece, indexOfFrom(piece, <<"\n">>, 1))
      Second(from, second) ==
        Piece(trim(Sub(aiResponse, from, IF second = 0 THEN Len(aiResponse) ELSE second - 1)))
      From(from) == Second(from, indexOfFrom(aiResponse, ExtractedMarker, from))
  IN From(indexOfFrom(aiResponse, ExtractedMarker, 1) + Len(ExtractedMarker))

\* Mutation of extractWithAI: no try/catch around the call
extractWithAIUncaught(enabled, reply) ==
  LET Replied(r) ==
        IF r.threw \/ ~r.isString THEN Threw
        ELSE IF includes(r.value, ExtractedMarker) THEN Returned(AfterMarker(r.value))
        ELSE Returned(null)
  IN Replied(callCloudflareAI(enabled, reply))

\* extractWithAI: every exception of the try block is caught and becomes null
extractWithAI(enabled, reply) ==
  LET Extracted(extracted) == IF extracted # <<>> THEN Returned(extracted) ELSE Returned(null)
      Replied(r) ==
        IF r.threw \/ ~r.isString THEN Returned(null)
        ELSE IF includes(r.value, ExtractedMarker) THEN Extracted(AfterMarker(r.value))
        ELSE Returned(null)
  IN IF ~enabled THEN Returned(null) ELSE Replied(callCloudflareAI(enabled, reply))

\* generateClarificationWithAI: response.trim(), or null on any exception
generateClarificationWithAI(enabled, reply) ==
  LET Replied(r) == IF r.threw \/ ~r.isString THEN Returned(null) ELSE Returned(trim(r.value))
  IN IF ~enabled THEN Returned(null) ELSE Replied(callCloudflareAI(enabled, reply))

----------------------------------------------------------------------------
\* ai-client: processConversation

ConfirmationWords ==
  { <<"y","e","s">>, <<"y","e","a","h">>, <<"y","e","p">>, <<"c","o","r","r","e","c","t">>, <<"r","i","g","h","t">>, <<"s","u","r","e">>, <<"o","k">>, <<"o","k","a","y">> }

\* Mutation of isConfirmation: the message is compared as it was typed
isExactConfirmation(userMessage) == userMessage \in ConfirmationWords

isConfirmation(userMessage) == trim(toLowerCase(userMessage)) \in ConfirmationWords

\* updatedPlaceholders.find(p => !p.value), as an index; 0 when there is none
FindUnfilled(phs) ==
  LET open == {i \in 1..Len(phs) : ~Truthy(phs[i].value)}
  IN IF open = {} THEN 0 ELSE MinOf(open)

\* updatedPlaceholders.every(p => p.value)
EveryFilled(phs) == \A i \in 1..Len(phs) : Truthy(phs[i].value)

\* The responses, by their template and the values put into it
Response(kind, description, value, feedback, hint) ==
  [kind |-> kind, description |-> description, value |-> value,
   feedback |-> feedback, hint |-> hint]
NoResponse == Response("none", <<>>, <<>>, "none", "none")

\* The hint appended to a prompt for a field
PromptHint(p) ==
  IF p.type = "number" THEN "(enter a number, e.g., 500000)"
  ELSE IF p.type = "date" THEN "(MM/DD/YYYY format)"
  ELSE IF includes(p.name, <<"S","T","A","T","E">>) THEN "(2-letter state code, e.g., CA)"
  ELSE "none"

\* Mutation of buildDefaultClarification: the hint does not depend on the type
genericClarification(p) ==
  Response("I'm not sure I caught that. Could you provide the **description**?",
           p.description, <<>>, "none", "Please enter the value clearly.")

buildDefaultClarification(p) ==
  Response("I'm not sure I caught that. Could you provide the **description**?",
           p.description, <<>>, "none",
           IF p.type = "number" THEN "Just enter the number (e.g., 500000)."
           ELSE IF p.type = "date" THEN "Please use MM/DD/YYYY format (e.g., 12/23/2024)."
           ELSE IF includes(p.name, <<"S","T","A","T","E">>) THEN "Please use a 2-letter state code (e.g., CA, NY, TX)."
           ELSE "Please enter the value clearly.")

AdvancePrompt(p) ==
  Response("Great! Now, what's the **description**?", p.description, <<>>, "none", PromptHint(p))
CompleteAfterConfirmation ==
  Response("Perfect! All fields are complete. Review the values, then download.",
           <<>>, <<>>, "none", "none")
AllComplete ==
  Response("All fields are complete! Click Download Completed Document.",
           <<>>, <<>>, "none", "none")
Feedback(validation) == Response("feedback", <<>>, <<>>, validation.feedback, "none")
\* "Got it!" with the stored value, then the completion text or the next prompt
Acknowledge(p, formattedValue, phs) ==
  IF EveryFilled(phs)
    THEN Response("Got it! **description**: value. Perfect! All fields are complete.",
                  p.description, formattedValue, "none", "none")
  ELSE Response("Got it! **description**: value. Next, what's the **next**?",
                p.description, formattedValue, "none", PromptHint(phs[FindUnfilled(phs)]))
AIClarification(txt) == Response("external clarification", <<>>, txt, "none", "none")
\* The clarification of the revision without Tier 3 when no field is current
BareClarification == Response("I'm not sure I caught that. ", <<>>, <<>>, "none", "none")
Rejected == Response("rejected promise", <<>>, <<>>, "none", "none")

Revisions == {"unnamed/part_003", "lib/ai-client.ts"}

\* What a step of processConversation leaves behind: the list, the result it
\* returns (pc = "idle") or the call it awaits
Outcome(phs, resp, complete, pc0, made) ==
  [placeholders |-> phs, response |-> resp, isComplete |-> complete, pc |-> pc0, calls |-> made]

\* Mutation of Assign: the value goes to the first field of the list
AssignFirst(phs, i, v) == [phs EXCEPT ![1].value = v]

\* currentPlaceholder.value = formattedValue
Assign(phs, i, v) == [phs EXCEPT ![i].value = v]

\* Mutation of ValidateAndStore: the value is stored whatever validateValue says
StoreUnvalidated(rev, phs, i, extractedValue, made) ==
  LET Stored(formattedValue, stored) ==
        Outcome(stored, Acknowledge(phs[i], formattedValue, stored), EveryFilled(stored),
                "idle", made \o <<"validateValue", "formatValue">>)
      Formatted(formattedValue) == Stored(formattedValue, Assign(phs, i, formattedValue))
  IN Formatted(IF rev = "unnamed/part_003"
                 THEN formatValue(extractedValue, phs[i])
               ELSE formatInline(extractedValue, phs[i]))

\* "If we extracted something, validate and update"
ValidateAndStore(rev, phs, i, extractedValue, made) ==
  LET Stored(formattedValue, stored) ==
        Outcome(stored, Acknowledge(phs[i], formattedValue, stored), EveryFilled(stored),
                "idle", made \o <<"validateValue", "formatValue">>)
      Formatted(formattedValue) == Stored(formattedValue, Assign(phs, i, formattedValue))
      Validated(validation) ==
        IF ~validation.valid
          THEN Outcome(phs, Feedback(validation), FALSE, "idle", made \o <<"validateValue">>)
        ELSE Formatted(IF rev = "unnamed/part_003"
                         THEN formatValue(extractedValue, phs[i])
                       ELSE formatInline(extractedValue, phs[i]))
  IN Validated(validateValue(extractedValue, phs[i]))

\* The confirmation branch, common to both revisions
ConfirmationTurn(phs) ==
  LET Next_(i) ==
        IF i # 0 THEN Outcome(phs, AdvancePrompt(phs[i]), FALSE, "idle", <<>>)
        ELSE Outcome(phs, CompleteAfterConfirmation, TRUE, "idle", <<>>)
  IN Next_(FindUnfilled(phs))

\* Mutation of StartHybrid: the external capability is asked before any pattern
StartAIFirst(userMessage, phs, enabled) ==
  LET Current(i) ==
        IF i = 0 THEN Outcome(phs, AllComplete, TRUE, "idle", <<>>)
        ELSE IF enabled THEN Outcome(phs, NoResponse, FALSE, "extractWithAI", <<>>)
        ELSE Outcome(phs, buildDefaultClarification(phs[i]), FALSE, "idle",
                     <<"buildDefaultClarification">>)
  IN IF isConfirmation(userMessage) THEN ConfirmationTurn(phs)
     ELSE Current(FindUnfilled(phs))

\* processConversation of unnamed/part_003 up to its first await or return
StartHybrid(userMessage, phs, enabled) ==
  LET made == <<"extractValueFromMessage">>
      Tier1(i, extractedValue) ==
        IF ~Truthy(extractedValue) /\ enabled
          THEN Outcome(phs, NoResponse, FALSE, "extractWithAI", made)
        ELSE IF Truthy(extractedValue)
          THEN ValidateAndStore("unnamed/part_003", phs, i, extractedValue, made)
        ELSE Outcome(phs, buildDefaultClarification(phs[i]), FALSE, "idle",
                     made \o <<"buildDefaultClarification">>)
      Current(i) ==
        IF i = 0 THEN Outcome(phs, AllComplete, TRUE, "idle", <<>>)
        ELSE Tier1(i, extractValueFromMessage(userMessage, phs[i]))
  IN IF isConfirmation(userMessage) THEN ConfirmationTurn(phs)
     ELSE Current(FindUnfilled(phs))

\* processConversation of lib/ai-client.ts: pattern matching only
StartPatternsOnly(userMessage, phs) ==
  LET made == <<"extractValueFromMessage">>
      Tier1(i, extractedValue) ==
        IF Truthy(extractedValue)
          THEN ValidateAndStore("lib/ai-client.ts", phs, i, extractedValue, made)
        ELSE Outcome(phs, buildDefaultClarification(phs[i]), FALSE, "idle", made)
      Current(i) ==
        IF i # 0 THEN Tier1(i, extractValueFromMessage(userMessage, phs[i]))
        ELSE Outcome(phs, BareClarification, FALSE, "idle", <<>>)
  IN IF isConfirmation(userMessage) THEN ConfirmationTurn(phs)
     ELSE Current(FindUnfilled(phs))

processConversation(rev, userMessage, phs, enabled) ==
  IF rev = "unnamed/part_003" THEN StartHybrid(userMessage, phs, enabled)
  ELSE StartPatternsOnly(userMessage, phs)

\* Mutation of AfterExtractWithAI: a call without a value is made again
AfterExtractRetrying(phs, i, enabled, reply, made) ==
  LET made2 == made \o <<"extractWithAI">>
      Settled(r) ==
        IF Truthy(r.value) THEN ValidateAndStore("unnamed/part_003", phs, i, r.value, made2)
        ELSE IF Len(made2) < 3 THEN Outcome(phs, NoResponse, FALSE, "extractWithAI", made2)
        ELSE Outcome(phs, NoResponse, FALSE, "generateClarificationWithAI", made2)
  IN Settled(extractWithAI(enabled, reply))

\* The continuation after "await extractWithAI(...)"
AfterExtractWithAI(phs, i, enabled, reply, made) ==
  LET made2 == made \o <<"extractWithAI">>
      Settled(r) ==
        IF r.threw THEN Outcome(phs, Rejected, FALSE, "idle", made2)
        ELSE IF Truthy(r.value) THEN ValidateAndStore("unnamed/part_003", phs, i, r.value, made2)
        ELSE Outcome(phs, NoResponse, FALSE, "generateClarificationWithAI", made2)
  IN Settled(extractWithAI(enabled, reply))

\* The continuation after "await generateClarificationWithAI(...)"
AfterClarificationWithAI(phs, i, enabled, reply, made) ==
  LET made2 == made \o <<"generateClarificationWithAI">>
      Settled(r) ==
        IF r.threw THEN Outcome(phs, Rejected, FALSE, "idle", made2)
        ELSE IF Truthy(r.value) THEN Outcome(phs, AIClarification(r.value), FALSE, "idle", made2)
        ELSE Outcome(phs, buildDefaultClarification(phs[i]), FALSE, "idle",
                     made2 \o <<"buildDefaultClarification">>)
  IN Settled(generateClarificationWithAI(enabled, reply))

----------------------------------------------------------------------------
\* Document texts: concatenations of at most MaxChunks chunks

MaxChunks == 3

Chunks ==
  << <<"[","C","o","m","p","a","n","y"," ","N","a","m","e","]">>, <<"[","C","O","M","P","A","N","Y","_","N","A","M","E","]">>, <<"[","_","_","_","_","]">>, <<"["," ","]">>, <<"[","-","-","]">>,
     <<"$">>, <<"i","n","c","o","r","p","o","r","a","t","e","d"," ","i","n"," ","t","h","e"," ","S","t","a","t","e"," ","o","f"," ">>, <<"[","C","l","o","s","i","n","g"," ","D","a","t","e","]">>, <<"[">>, <<"]">> >>

RECURSIVE Concat(_)
Concat(ss) == IF ss = <<>> THEN <<>> ELSE Head(ss) \o Concat(Tail(ss))

ChunkChoices == UNION {[1..n -> 1..Len(Chunks)] : n \in 0..MaxChunks}

\* A clause longer than the context window, with two blank fields
Clauses ==
  { <<"C","o","m","p","a","n","y",":"," ","A","c","m","e"," ","H","o","l","d","i","n","g","s",","," ","1","2"," ","M","a","i","n"," ","S","t","r","e","e","t",","," ","S","p","r","i","n","g","f","i","e","l","d",","," ","r","e","g","."," ","n","o","."," ","1","2",","," ","[","_","_","_","_","]"," ","s","i","g","n","e","d"," ","b","y"," ","[","_","_","_","_","]"," ","(","p","r","i","n","t"," ","n","a","m","e",")"," ","[","T","i","t","l","e","]">> }

Texts == { Concat([j \in DOMAIN c |-> Chunks[c[j]]]) : c \in ChunkChoices } \cup Clauses

\* The documents of the conversations
Documents ==
  { <<"B","e","t","w","e","e","n"," ","[","C","o","m","p","a","n","y"," ","N","a","m","e","]"," ","a","n","d"," ","t","h","e"," ","i","n","v","e","s","t","o","r"," ","f","o","r"," ","$","[","A","m","o","u","n","t","]"," ","o","n"," ","[","C","l","o","s","i","n","g"," ","D","a","t","e","]">>,
    <<"i","n","c","o","r","p","o","r","a","t","e","d"," ","i","n"," ","t","h","e"," ","S","t","a","t","e"," ","o","f"," ","[","_","_","_","_","]",","," ","c","o","n","t","a","c","t"," ","[","E","m","a","i","l","]">>,
    <<"[","T","i","t","l","e","]"," ","[","S","t","a","t","e","]">>,
    <<"P","a","y"," ","$","[","A","m","o","u","n","t","]">> }

\* The user's messages
UserMessages ==
  { <<"y","e","s">>, <<" ","O","K"," ">>, <<"s","u","r","e"," ","t","h","i","n","g">>, <<"$","2","M">>, <<"2","0","0","0","0","0","0">>, <<"1","2","/","1","5","/","2","0","2","4">>, <<"1","3","/","4","5","/","2","0","2","4">>,
    <<"I","t","'","s"," ","A","c","m","e"," ","C","o","r","p",".">>, <<"C","A">>, <<"z","z">>, <<"x">>, <<"?">>, <<"a","@","b",".","c","o">>, <<"c","a">>, <<"0","2","/","3","0","/","2","0","2","4">> }

----------------------------------------------------------------------------
\* The state

VARIABLES
  text,           \* the document text handed to detectPlaceholders
  placeholders,   \* the field list: detection's result, then each turn's updatedPlaceholders
  stage,          \* "uploaded" before detection, "chat" after it
  revision,       \* which revision of ai-client serves the conversation
  AI_ENABLED,     \* Boolean(CLOUDFLARE_ACCOUNT_ID && CLOUDFLARE_API_TOKEN)
  pc,             \* "idle", or the call the turn in progress awaits
  userMessage,    \* the message of the turn in progress or last returned
  current,        \* index of currentPlaceholder of that turn, 0 if none
  calls,          \* the functions that turn has called, in order
  aiReply,        \* what the last awaited call produced
  response,       \* result.response of the last returned turn
  isComplete,     \* result.isComplete of the last returned turn
  sessions,       \* the session store of session-manager, in insertion order
  uploads,        \* the files of the uploads directory
  http,           \* the response of the last request to a route
  deployment,     \* which revisions of the upload route and of generateDocx serve
  now,            \* Date.now() of the server, in hours
  issued,         \* how many ids generateSessionId has returned
  pending,        \* the chat requests that await the external capability, oldest first
  returned        \* the last call made on the session manager from outside the routes, and its result

vars == <<text, placeholders, stage, revision, AI_ENABLED, pc, userMessage, current,
          calls, aiReply, response, isComplete, sessions, uploads, http, deployment,
          now, issued, pending, returned>>

turnVars == <<pc, userMessage, current, calls, aiReply, response, isComplete>>

\* No call of the session manager has been observed
NoCall == [call |-> "none", id |-> 0, value |-> 0]

routeVars == <<sessions, uploads, http, deployment, now, issued, pending, returned>>

\* A package of a document: the state of its bytes, the runs of the paragraph
\* of word/document.xml, and the parts regeneration does not open
Package(bytes, document, parts) == [bytes |-> bytes, document |-> document, parts |-> parts]
NoPackage == Package("none", <<>>, "none")

\* NextResponse.json({ error }, { status }) or the body of a successful request
HttpResponse(route, status, error, missing, body, made) ==
  [route |-> route, status |-> status, error |-> error, missing |-> missing,
   body |-> body, calls |-> made]
NoRequest == HttpResponse("none", 0, "none", <<>>, NoPackage, <<>>)

\* No request has reached the upload or the generate route
NoRoutes ==
  /\ sessions = <<>>
  /\ uploads = {}
  /\ http = NoRequest
  /\ deployment = [upload |-> "app/api/upload/route.ts", generator |-> "lib/docx-generator.ts"]
  /\ now = 0
  /\ issued = 0
  /\ pending = <<>>
  /\ returned = NoCall

IdleTurn ==
  /\ pc = "idle"
  /\ userMessage = <<>>
  /\ current = 0
  /\ calls = <<>>
  /\ aiReply = NoReply
  /\ response = NoResponse
  /\ isComplete = FALSE

\* A conversation on the field list detected in one of the documents
Init ==
  /\ text \in Documents
  /\ placeholders = detectPlaceholders(text)
  /\ stage = "chat"
  /\ revision \in Revisions
  /\ AI_ENABLED \in (IF revision = "unnamed/part_003" THEN BOOLEAN ELSE {FALSE})
  /\ IdleTurn
  /\ NoRoutes

Apply(out) ==
  /\ placeholders' = out.placeholders
  /\ response' = out.response
  /\ isComplete' = out.isComplete
  /\ pc' = out.pc
  /\ calls' = out.calls

\* A chat turn: processConversation(message, placeholders) up to its return
\* or its first await
Turn(message) ==
  /\ stage = "chat"
  /\ pc = "idle"
  /\ userMessage' = message
  /\ current' = (IF isConfirmation(message) THEN 0 ELSE FindUnfilled(placeholders))
  /\ aiReply' = NoReply
  /\ \E out \in {processConversation(revision, message, placeholders, AI_ENABLED)} : Apply(out)
  /\ UNCHANGED <<text, stage, revision, AI_ENABLED>>
  /\ UNCHANGED routeVars

\* The Tier 2 call settles and the turn goes on
ExtractReply(reply) ==
  /\ pc = "extractWithAI"
  /\ aiReply.kind # "silent"
  /\ aiReply' = reply
  /\ \E out \in {AfterExtractWithAI(placeholders, current, AI_ENABLED, reply, calls)} : Apply(out)
  /\ UNCHANGED <<text, stage, revision, AI_ENABLED, userMessage, current>>
  /\ UNCHANGED routeVars

\* The Tier 3 call settles and the turn returns
ClarifyReply(reply) ==
  /\ pc = "generateClarificationWithAI"
  /\ aiReply.kind # "silent"
  /\ aiReply' = reply
  /\ \E out \in {AfterClarificationWithAI(placeholders, current, AI_ENABLED, reply, calls)} : Apply(out)
  /\ UNCHANGED <<text, stage, revision, AI_ENABLED, userMessage, current>>
  /\ UNCHANGED routeVars

Next ==
  \/ \E message \in UserMessages : Turn(message)
  \/ \E reply \in AIExtractionReplies : ExtractReply(reply)
  \/ \E reply \in AIClarificationReplies : ClarifyReply(reply)

Spec == Init /\ [][Next]_vars

\* The capability never answers the request the turn awaits: the fetch of
\* callCloudflareAI carries no signal and no timer, so its promise stays
\* pending and the turn has no further step
NoAnswer ==
  /\ pc \in {"extractWithAI", "generateClarificationWithAI"}
  /\ aiReply.kind # "silent"
  /\ aiReply' = Reply("silent", <<>>, TRUE)
  /\ UNCHANGED <<text, placeholders, stage, revision, AI_ENABLED, pc, userMessage, current,
                 calls, response, isComplete>>
  /\ UNCHANGED routeVars

LNext == Next \/ NoAnswer

\* The continuation of an awaited call runs once the call has settled: the
\* capability, unless it stays silent, answers, and the turn goes on
Settle ==
  \/ \E reply \in AIExtractionReplies : ExtractReply(reply)
  \/ \E reply \in AIClarificationReplies : ClarifyReply(reply)

SpecLive == Init /\ [][LNext]_vars /\ WF_vars(Settle)

----------------------------------------------------------------------------
\* Detection alone, over all the texts

DInit ==
  /\ text \in Texts
  /\ placeholders = <<>>
  /\ stage = "uploaded"
  /\ revision = "unnamed/part_003"
  /\ AI_ENABLED = FALSE
  /\ IdleTurn
  /\ NoRoutes

Detect ==
  /\ stage = "uploaded"
  /\ placeholders' = detectPlaceholders(text)
  /\ stage' = "detected"
  /\ UNCHANGED <<text, revision, AI_ENABLED>>
  /\ UNCHANGED turnVars
  /\ UNCHANGED routeVars

DNext == Detect

SpecDetect == DInit /\ [][DNext]_vars


----------------------------------------------------------------------------
\* docx-generator: generateDocx, and the libraries it hands the package to

\* <w:r><w:rPr>rPr</w:rPr><w:t>t</w:t></w:r>; rPr is "" for a run without properties
Run(rPr, t) == [rPr |-> rPr, t |-> t]

\* extractTextFromDocx: mammoth.extractRawText gives the text of the runs of
\* the paragraph and the two line feeds that end a paragraph; every failure,
\* an empty text included, is rethrown
extractTextFromDocx(package) ==
  LET Raw(value) == IF trim(value) = <<>> THEN Threw ELSE Returned(value)
  IN IF package.bytes # "zip" THEN Threw
     ELSE Raw(Concat([k \in DOMAIN package.document |-> package.document[k].t])
                \o <<"\n", "\n">>)

\* xmlContent.replace(/<\/w:t><\/w:r><w:r[^>]*><w:rPr>.*?<\/w:rPr><w:t([^>]*)>/g, ''):
\* the end of a run and the opening of a following run that has properties
\* are deleted, so that run's text continues the text of the run before it
RECURSIVE MergeRuns(_, _)
MergeRuns(done, rest) ==
  IF rest = <<>> THEN done
  ELSE IF done # <<>> /\ Head(rest).rPr # ""
    THEN MergeRuns(SubSeq(done, 1, Len(done) - 1)
                     \o <<Run(done[Len(done)].rPr, done[Len(done)].t \o Head(rest).t)>>,
                   Tail(rest))
  ELSE MergeRuns(Append(done, Head(rest)), Tail(rest))

\* The data object built from the placeholders: data[placeholder.originalText]
\* = placeholder.value in lib/docx-generator.ts, data[placeholder.name] and
\* data[placeholder.name.toLowerCase()] in unnamed/part_005; a property key is
\* a string, and an assignment to an existing key replaces its value
RECURSIVE BuildData(_, _, _)
BuildData(generator, phs, data) ==
  IF phs = <<>> THEN data
  ELSE LET Assigned(d, key, value) == {e \in d : e[1] # key} \cup {<<key, value>>}
           Key(k) == IF k = undefined THEN <<"u","n","d","e","f","i","n","e","d">> ELSE IF k = null THEN <<"n","u","l","l">> ELSE k
           Put(p) ==
             IF ~Truthy(p.value) THEN data
             ELSE IF generator = "lib/docx-generator.ts"
               THEN Assigned(data, Key(p.originalText), p.value)
             ELSE Assigned(Assigned(data, p.name, p.value), toLowerCase(p.name), p.value)
       IN BuildData(generator, Tail(phs), Put(Head(phs)))

\* The value docxtemplater renders for a tag: scope[tag], and "undefined" from
\* its default nullGetter when the data has no such key
TagValue(data, tag) ==
  IF \E e \in data : e[1] = tag THEN (CHOOSE e \in data : e[1] = tag)[2] ELSE <<"u","n","d","e","f","i","n","e","d">>

\* doc.render(data) over the characters of the paragraph with delimiters "["
\* and "]": a tag may span runs and its value goes to the run of its "[";
\* an unclosed or unopened tag throws
RECURSIVE RenderFrom(_, _, _, _, _)
RenderFrom(txt, owner, data, p, out) ==
  IF p > Len(txt) THEN [ok |-> TRUE, chars |-> out]
  ELSE IF txt[p] = "]" THEN [ok |-> FALSE, chars |-> <<>>]
  ELSE IF txt[p] # "[" THEN RenderFrom(txt, owner, data, p + 1, Append(out, <<txt[p], owner[p]>>))
  ELSE LET Close(q) ==
             IF q = 0 \/ (\E j \in (p + 1)..(q - 1) : txt[j] = "[") THEN [ok |-> FALSE, chars |-> <<>>]
             ELSE LET Put(v) == RenderFrom(txt, owner, data, q + 1,
                                           out \o [i \in 1..Len(v) |-> <<v[i], owner[p]>>])
                  IN Put(TagValue(data, Sub(txt, p + 1, q - 1)))
       IN Close(NextClose(txt, p))

\* doc.render(data): the characters rendered into each run
Render(document, data) ==
  LET CharsOf(chars, k) ==
        LET In(e) == e[2] = k
            Text(sel) == [i \in 1..Len(sel) |-> sel[i][1]]
        IN Text(SelectSeq(chars, In))
      Regroup(r) ==
        IF ~r.ok THEN [ok |-> FALSE, document |-> <<>>]
        ELSE [ok |-> TRUE,
              document |-> [k \in DOMAIN document |-> Run(document[k].rPr, CharsOf(r.chars, k))]]
      owner == Concat([k \in DOMAIN document |-> [i \in 1..Len(document[k].t) |-> k]])
  IN Regroup(RenderFrom(Concat([k \in DOMAIN document |-> document[k].t]), owner, data, 1, <<>>))

\* generateDocx: every error is rethrown as 'Failed to generate document. Please try again.'
generateDocx(generator, originalBuffer, phs) ==
  IF originalBuffer.bytes # "zip" THEN [threw |-> TRUE, buffer |-> NoPackage]
  ELSE LET Zipped(r) ==
             IF ~r.ok THEN [threw |-> TRUE, buffer |-> NoPackage]
             ELSE [threw |-> FALSE, buffer |-> Package("zip", r.document, originalBuffer.parts)]
           Rendered(document) == Zipped(Render(document, BuildData(generator, phs, {})))
       IN Rendered(IF generator = "lib/docx-generator.ts"
                     THEN MergeRuns(<<>>, originalBuffer.document)
                   ELSE originalBuffer.document)

----------------------------------------------------------------------------
\* session-manager and the routes

\* Hours after which cleanupOldSessions removes a session
SESSION_TIMEOUT == 24

\* getSession: 0 stands for null
getSession(store, sessionId) ==
  IF sessionId \in DOMAIN store THEN sessionId ELSE 0

\* A cleanupOldSessions that removes nothing
keepEverySession(store, at) == store

\* cleanupOldSessions: every session with now - updatedAt > SESSION_TIMEOUT is deleted
cleanupOldSessions(store, at) ==
  LET Keep(kept) == [k \in kept |-> store[k]]
  IN Keep({k \in DOMAIN store : ~(at - store[k].updatedAt > SESSION_TIMEOUT)})

\* createSession: sessions.set(sessionId, session), then cleanupOldSessions()
createSession(store, sessionId, at, documentText, originalFileName, originalFileBuffer, phs) ==
  LET session == [id |-> sessionId, documentText |-> documentText,
                  originalFileName |-> originalFileName,
                  originalFileBuffer |-> originalFileBuffer,
                  placeholders |-> phs, conversationHistory |-> <<>>,
                  createdAt |-> at, updatedAt |-> at]
  IN cleanupOldSessions([k \in DOMAIN store \cup {sessionId} |->
                           IF k = sessionId THEN session ELSE store[k]], at)

\* updateSession: { ...session, ...updates, updatedAt: new Date() }; result 0
\* stands for null
updateSession(store, sessionId, updates, at) ==
  LET Merged(session) ==
        [f \in DOMAIN session |->
           IF f = "updatedAt" THEN at
           ELSE IF f \in DOMAIN updates THEN updates[f] ELSE session[f]]
  IN IF getSession(store, sessionId) = 0 THEN [result |-> 0, store |-> store]
     ELSE [result |-> sessionId,
           store |-> [store EXCEPT ![sessionId] = Merged(store[sessionId])]]

updateSessionPlaceholders(store, sessionId, phs, at) ==
  updateSession(store, sessionId, [placeholders |-> phs], at)

\* An addMessageToSession that keeps only the new message
addMessageOverwriting(store, sessionId, message, at) ==
  updateSession(store, sessionId, [conversationHistory |-> <<message>>], at)

addMessageToSession(store, sessionId, message, at) ==
  IF getSession(store, sessionId) = 0 THEN [result |-> 0, store |-> store]
  ELSE updateSession(store, sessionId,
                     [conversationHistory |->
                        Append(store[sessionId].conversationHistory, message)], at)

\* A message of the conversation history
Message(role, content, at) == [role |-> role, content |-> content, timestamp |-> at]

\* The messages extractWithAI sends: the system prompt for the field, the last
\* HistoryWindow messages of conversationHistory, the user's message
HistoryWindow == 6
ExtractionRequest(message, placeholder, conversationHistory) ==
  LET recentHistory == Sub(conversationHistory,
                           Len(conversationHistory) - HistoryWindow + 1,
                           Len(conversationHistory))
  IN <<[role |-> "system",
        content |-> <<placeholder.description, placeholder.type>>]>>
       \o [k \in 1..Len(recentHistory) |->
             [role |-> (IF recentHistory[k].role = "user" THEN "user" ELSE "assistant"),
              content |-> recentHistory[k].content]]
       \o <<[role |-> "user", content |-> message]>>

\* The messages generateClarificationWithAI sends
ClarificationRequest(message, placeholder) ==
  <<[role |-> "system",
     content |-> <<placeholder.description, placeholder.type, message>>],
    [role |-> "user", content |-> "Generate the clarification question."]>>

\* file.name.replace(/[^a-zA-Z0-9._-]/g, '_')
Sanitize(name) ==
  [i \in 1..Len(name) |-> IF IsWord(name[i]) \/ name[i] \in {".", "-"} THEN name[i] ELSE "_"]

\* The packages of the uploaded documents
Packages ==
  { Package("zip", <<Run("", <<"[","T","i">>), Run("i", <<"t","l","e","]"," ">>), Run("b", <<"[","S","t","a","t","e","]">>)>>, "styles, header, footer"),
    Package("zip", <<Run("", <<"P","a","y"," ">>), Run("b", <<"n","o","w"," ">>), Run("", <<"$","[","A","m","o","u","n","t","]">>)>>, "styles, header, footer"),
    Package("zip", <<Run("", <<"[","T","i","t","l","e","]"," ","[">>)>>, "styles, header, footer"),
    Package("zip", <<Run("", <<"i","n"," ","[","S","T","A","T","E","]">>)>>, "styles, header, footer"),
    Package("zip", <<Run("", <<"N","o"," ","f","i","e","l","d","s"," ","["," ","]">>)>>, "styles, header, footer"),
    Package("corrupt", <<>>, "none") }

\* The uploaded files
Files == { [name |-> name, package |-> package] : name \in {<<"a",".","d","o","c","x">>, <<"a"," ","b",".","d","o","c","x">>, <<"a",".","t","x","t">>}, package \in Packages }

\* The messages of the chat requests
ChatMessages == { <<"C","A">>, <<"2","0","0","0","0","0","0">>, <<"x">>, <<"y","e","s">> }

\* The chat turns of a session
MaxTurns == 2

\* An upload route that creates a session for every readable document
UploadUnchecked(file) ==
  /\ stage = "serving"
  /\ sessions = <<>>
  /\ \E r \in {extractTextFromDocx(file.package)} :
       /\ ~r.threw
       /\ sessions' = createSession(sessions, issued + 1, now, r.value, file.name,
                                    file.package, detectPlaceholders(r.value))
       /\ placeholders' = detectPlaceholders(r.value)
       /\ http' = HttpResponse("upload", 200, "none", <<>>, NoPackage,
                    <<"extractTextFromDocx", "detectPlaceholders", "createSession">>)
  /\ issued' = issued + 1
  /\ UNCHANGED <<text, stage, revision, AI_ENABLED, uploads, deployment, now, pending>>
  /\ UNCHANGED turnVars
  /\ UNCHANGED returned

\* POST /api/upload, and the page keeping the field list of the response
Upload(file) ==
  /\ stage = "serving"
  /\ sessions = <<>>
  /\ LET Reject(status, error, made) ==
           /\ http' = HttpResponse("upload", status, error, <<>>, NoPackage, made)
           /\ UNCHANGED <<sessions, uploads, placeholders, issued>>
         Accept(documentText, phs) ==
           /\ sessions' = createSession(sessions, issued + 1, now, documentText, file.name,
                                        (IF deployment.upload = "app/api/upload/route.ts"
                                           THEN file.package ELSE NoPackage),
                                        phs)
           /\ issued' = issued + 1
           /\ placeholders' = phs
           /\ uploads' = (IF deployment.upload = "app/api/upload/route.ts" THEN uploads
                          ELSE uploads \cup {[name |-> <<issued + 1, Sanitize(file.name)>>,
                                              package |-> file.package]})
           /\ http' = HttpResponse("upload", 200, "none", <<>>, NoPackage,
                        <<"extractTextFromDocx", "detectPlaceholders", "createSession">>)
         Detected(documentText, phs) ==
           IF Len(phs) = 0
             THEN Reject(400, "No placeholders found in document.",
                         <<"extractTextFromDocx", "detectPlaceholders">>)
           ELSE Accept(documentText, phs)
         Extracted(r) ==
           IF r.threw
             THEN Reject(500, "Failed to extract text from document.", <<"extractTextFromDocx">>)
           ELSE Detected(r.value, detectPlaceholders(r.value))
     IN IF Sub(file.name, Len(file.name) - 4, Len(file.name)) # <<".","d","o","c","x">>
          THEN Reject(400, "Only .docx files are supported", <<>>)
        ELSE Extracted(extractTextFromDocx(file.package))
  /\ UNCHANGED <<text, stage, revision, AI_ENABLED, deployment, now, pending>>
  /\ UNCHANGED turnVars
  /\ UNCHANGED returned

\* A chat route that answers without updateSessionPlaceholders
ChatReturnsUnsaved(store, s, out) ==
  /\ out.pc = "idle"
  /\ sessions' = addMessageToSession(store, s, Message("assistant", out.response, now), now).store
  /\ placeholders' = out.placeholders
  /\ http' = HttpResponse("chat", 200, "none", <<>>, NoPackage, out.calls)

\* The end of a chat request: updateSessionPlaceholders, addMessageToSession
\* with the assistant's message, the response, and the page keeping the
\* returned field list
ChatReturns(store, s, out) ==
  /\ out.pc = "idle"
  /\ \E updated \in {updateSessionPlaceholders(store, s, out.placeholders, now).store} :
       sessions' = addMessageToSession(updated, s, Message("assistant", out.response, now),
                                       now).store
  /\ placeholders' = out.placeholders
  /\ http' = HttpResponse("chat", 200, "none", <<>>, NoPackage, out.calls)

\* The chat request waits for the call processConversation awaits
ChatAwaits(store, s, message, phs, i, out, queue) ==
  /\ out.pc # "idle"
  /\ sessions' = store
  /\ pending' = Append(queue,
       [session |-> s, message |-> message, placeholders |-> phs, current |-> i,
        pc |-> out.pc, calls |-> out.calls,
        request |-> (IF out.pc = "extractWithAI"
                       THEN ExtractionRequest(message, phs[i], <<>>)
                     ELSE ClarificationRequest(message, phs[i]))])
  /\ UNCHANGED <<placeholders, http>>

\* POST /api/chat of unnamed/part_007, up to its response or to the first
\* call it awaits: the field list is the one the page sends with the request,
\* and processConversation(message, placeholders) gets no history
Chat(sessionId, message) ==
  /\ stage = "serving"
  /\ LET NotFound ==
           /\ http' = HttpResponse("chat", 404, "Session not found or expired.", <<>>,
                                   NoPackage, <<>>)
           /\ UNCHANGED <<sessions, placeholders, pending>>
         Processed(store, s, out) ==
           \/ ChatReturns(store, s, out) /\ UNCHANGED pending
           \/ ChatAwaits(store, s, message, placeholders, FindUnfilled(placeholders), out,
                         pending)
         IsUser(m) == m.role = "user"
         Got(s) ==
           IF s = 0 THEN NotFound
           ELSE /\ Len(SelectSeq(sessions[s].conversationHistory, IsUser)) < MaxTurns
                /\ Processed(addMessageToSession(sessions, s, Message("user", message, now),
                                                 now).store,
                             s,
                             processConversation(revision, message, placeholders, AI_ENABLED))
     IN Got(getSession(sessions, sessionId))
  /\ UNCHANGED <<text, stage, revision, AI_ENABLED, uploads, deployment, now, issued>>
  /\ UNCHANGED turnVars
  /\ UNCHANGED returned

\* What the capability answers to the requests of the chat route
ChatReplies ==
  { Reply("fetchRejects", <<>>, TRUE),
    Reply("ok", <<"E","X","T","R","A","C","T","E","D",":","C","A">>, FALSE),
    Reply("ok", <<" ","W","h","i","c","h"," ","v","a","l","u","e"," ","s","h","o","u","l","d"," ","I"," ","u","s","e","?"," ">>, FALSE) }

\* The call the k-th waiting chat request awaits settles, and the request goes
\* on to its response or to its next call
ChatReply(k, reply) ==
  /\ stage = "serving"
  /\ k \in DOMAIN pending
  /\ LET Remaining == [j \in 1..(Len(pending) - 1) |-> pending[IF j < k THEN j ELSE j + 1]]
         Continued(t, out) ==
           \/ ChatReturns(sessions, t.session, out) /\ pending' = Remaining
           \/ ChatAwaits(sessions, t.session, t.message, t.placeholders, t.current, out,
                         Remaining)
         Settled(t) ==
           Continued(t, IF t.pc = "extractWithAI"
                          THEN AfterExtractWithAI(t.placeholders, t.current, AI_ENABLED, reply,
                                                  t.calls)
                        ELSE AfterClarificationWithAI(t.placeholders, t.current, AI_ENABLED,
                                                      reply, t.calls))
     IN Settled(pending[k])
  /\ UNCHANGED <<text, stage, revision, AI_ENABLED, uploads, deployment, now, issued>>
  /\ UNCHANGED turnVars
  /\ UNCHANGED returned

\* A generate route that hands every session it finds to generateDocx
GenerateUnchecked(store, files, generator, sessionId) ==
  IF getSession(store, sessionId) = 0
    THEN HttpResponse("generate", 404, "Session not found or expired.", <<>>, NoPackage, <<>>)
  ELSE HttpResponse("generate", 200, "none", <<>>,
                    generateDocx(generator, Package("zip", <<>>, "none"),
                                 store[sessionId].placeholders).buffer,
                    <<"generateDocx">>)

\* The response of POST /api/generate for a session id
GenerateResponse(store, files, generator, sessionId) ==
  LET Reject(status, error, missing) ==
        HttpResponse("generate", status, error, missing, NoPackage, <<>>)
      Generated(r) ==
        IF r.threw
          THEN HttpResponse("generate", 500, "Failed to generate document. Please try again.",
                            <<>>, NoPackage, <<"generateDocx">>)
        ELSE HttpResponse("generate", 200, "none", <<>>, r.buffer, <<"generateDocx">>)
      Read(originalBuffer, phs) ==
        IF originalBuffer.bytes = "empty" THEN Reject(400, "Original document is empty", <<>>)
        ELSE Generated(generateDocx(generator, originalBuffer, phs))
      Located(session, found) ==
        IF found = {} THEN Reject(404, "Original file not found.", <<>>)
        ELSE Read((CHOOSE f \in found : TRUE).package, session.placeholders)
      Checked(session, unfilled) ==
        IF Len(unfilled) > 0
          THEN Reject(400, "Please fill all placeholders. Missing: ",
                      [i \in 1..Len(unfilled) |-> unfilled[i].description])
        ELSE Located(session, {f \in files : f.name = <<session.id, session.originalFileName>>})
      Unfilled(p) == ~Truthy(p.value)
      Got(s) ==
        IF s = 0 THEN Reject(404, "Session not found or expired.", <<>>)
        ELSE Checked(store[s], SelectSeq(store[s].placeholders, Unfilled))
  IN Got(getSession(store, sessionId))

\* A generate route that drops the session of a failed request
GenerateDroppingSession(sessionId) ==
  /\ stage = "serving"
  /\ http' = GenerateResponse(sessions, uploads, deployment.generator, sessionId)
  /\ sessions' = (IF http'.status = 500 THEN <<>> ELSE sessions)
  /\ UNCHANGED <<text, placeholders, stage, revision, AI_ENABLED, uploads, deployment,
                 now, issued, pending>>
  /\ UNCHANGED turnVars
  /\ UNCHANGED returned

\* POST /api/generate
Generate(sessionId) ==
  /\ stage = "serving"
  /\ http' = GenerateResponse(sessions, uploads, deployment.generator, sessionId)
  /\ UNCHANGED <<text, placeholders, stage, revision, AI_ENABLED, sessions, uploads, deployment,
                 now, issued, pending>>
  /\ UNCHANGED turnVars
  /\ UNCHANGED returned

\* A server that has served no request
SInit ==
  /\ text = <<>>
  /\ placeholders = <<>>
  /\ stage = "serving"
  /\ revision \in Revisions
  /\ AI_ENABLED \in (IF revision = "unnamed/part_003" THEN BOOLEAN ELSE {FALSE})
  /\ IdleTurn
  /\ sessions = <<>>
  /\ uploads = {}
  /\ http = NoRequest
  /\ now = 0
  /\ issued = 0
  /\ pending = <<>>
  /\ returned = NoCall
  /\ deployment \in [upload : {"app/api/upload/route.ts", "unnamed/part_002"},
                     generator : {"lib/docx-generator.ts", "unnamed/part_005"}]

SNext ==
  \/ \E file \in Files : Upload(file)
  \/ \E sessionId \in {1, 2}, message \in ChatMessages : Chat(sessionId, message)
  \/ \E k \in 1..MaxTurns, reply \in ChatReplies : ChatReply(k, reply)
  \/ \E sessionId \in {1, 2} : Generate(sessionId)

SpecSession == SInit /\ [][SNext]_vars

\* The sessions a store may hold at a time, and the hours the clock runs
MaxSessions == 3
MaxHours == 26

\* The updates of updateSession
StoreUpdates == { [placeholders |-> <<>>] }

\* createSession(documentText, originalFileName, originalFileBuffer, placeholders)
StoreCreate ==
  /\ stage = "store"
  /\ issued < MaxSessions
  /\ sessions' = createSession(sessions, issued + 1, now, <<"[", "A", "]">>,
                               <<"a", ".", "d", "o", "c", "x">>, NoPackage, <<>>)
  /\ issued' = issued + 1
  /\ returned' = [call |-> "createSession", id |-> issued + 1, value |-> issued + 1]
  /\ UNCHANGED <<text, placeholders, stage, revision, AI_ENABLED, uploads, http, deployment,
                 now, pending>>
  /\ UNCHANGED turnVars

\* getSession(sessionId)
StoreGet(sessionId) ==
  /\ stage = "store"
  /\ returned' = [call |-> "getSession", id |-> sessionId,
                  value |-> getSession(sessions, sessionId)]
  /\ UNCHANGED <<text, placeholders, stage, revision, AI_ENABLED, sessions, uploads, http,
                 deployment, now, issued, pending>>
  /\ UNCHANGED turnVars

\* updateSession(sessionId, updates)
StoreUpdate(sessionId, updates) ==
  /\ stage = "store"
  /\ \E r \in {updateSession(sessions, sessionId, updates, now)} :
       /\ sessions' = r.store
       /\ returned' = [call |-> "updateSession", id |-> sessionId, value |-> r.result]
  /\ UNCHANGED <<text, placeholders, stage, revision, AI_ENABLED, uploads, http, deployment,
                 now, issued, pending>>
  /\ UNCHANGED turnVars

\* Time passes between two calls
Tick(hours) ==
  /\ stage = "store"
  /\ now + hours <= MaxHours
  /\ now' = now + hours
  /\ UNCHANGED <<text, placeholders, stage, revision, AI_ENABLED, sessions, uploads, http,
                 deployment, issued, pending, returned>>
  /\ UNCHANGED turnVars

\* A session manager that has been loaded and not called
StoreInit ==
  /\ text = <<>>
  /\ placeholders = <<>>
  /\ stage = "store"
  /\ revision = "unnamed/part_003"
  /\ AI_ENABLED = FALSE
  /\ IdleTurn
  /\ sessions = <<>>
  /\ uploads = {}
  /\ http = NoRequest
  /\ now = 0
  /\ issued = 0
  /\ pending = <<>>
  /\ returned = NoCall
  /\ deployment = [upload |-> "app/api/upload/route.ts", generator |-> "lib/docx-generator.ts"]

StoreNext ==
  \/ StoreCreate
  \/ \E sessionId \in 1..MaxSessions : StoreGet(sessionId)
  \/ \E sessionId \in 1..MaxSessions, updates \in StoreUpdates : StoreUpdate(sessionId, updates)
  \/ \E hours \in {12, 13} : Tick(hours)

SpecStore == StoreInit /\ [][StoreNext]_vars
----------------------------------------------------------------------------
\* Properties of the conversation (under Spec)

C2_CompleteIffAllFilled ==
  (pc = "idle" /\ userMessage # <<>>) =>
    /\ isComplete <=> EveryFilled(placeholders)
    /\ EveryFilled(placeholders) =>
         response.kind \in
           { "Perfect! All fields are complete. Review the values, then download.",
             "All fields are complete! Click Download Completed Document.",
             "Got it! **description**: value. Perfect! All fields are complete." }

\* C3: when the value extracted in a turn (by Tier 1, or by Tier 2 when it is
\* asked) fails validation, the turn returns the feedback with isComplete
\* false, every value is as before and the same field is current.
C3_InvalidValueNotStored ==
  [][ LET p == placeholders[current']
          Refused(validation) ==
            /\ pc' = "idle"
            /\ response' = Feedback(validation)
            /\ response'.feedback # "none"
            /\ isComplete' = FALSE
            /\ placeholders' = placeholders
            /\ FindUnfilled(placeholders') = current'
          Extracted(v) ==
            Truthy(v) => \A validation \in {validateValue(v, p)} :
                           ~validation.valid => Refused(validation)
      IN /\ (pc = "idle" /\ current' # 0) =>
              \A v \in {extractValueFromMessage(userMessage', p)} : Extracted(v)
         /\ pc = "extractWithAI" =>
              \A v \in {extractWithAI(AI_ENABLED, aiReply').value} : Extracted(v)
    ]_vars

\* A value that Tier 2 extracted was refused and the field is still current
C3_FeedbackGiven ==
  /\ pc = "idle"
  /\ calls = <<"extractValueFromMessage", "extractWithAI", "validateValue">>
  /\ response.kind = "feedback"
  /\ current # 0 /\ FindUnfilled(placeholders) = current

\* C4: with no external capability, whatever the type of the current field
\* there is a message whose turn fills it.
C4_FillableWithoutAI ==
  (~AI_ENABLED /\ pc = "idle" /\ FindUnfilled(placeholders) # 0) =>
    \E m \in UserMessages :
      Truthy(processConversation(revision, m, placeholders, FALSE)
               .placeholders[FindUnfilled(placeholders)].value)

\* C5: when the Tier 2 call fails (transport error or timeout, non-OK status,
\* body that is no JSON, no or malformed result, text without a value), the
\* turn goes on to the clarification as it does when no value was produced:
\* nothing is thrown, no value changes, and the turn then returns a
\* clarification with isComplete false.
C5_Tier2FailureDegrades ==
  [][ /\ (pc = "extractWithAI" /\ aiReply'.failure) =>
           /\ pc' = "generateClarificationWithAI"
           /\ placeholders' = placeholders
           /\ response' = NoResponse
           /\ isComplete' = FALSE
           /\ calls' = calls \o <<"extractWithAI">>
      /\ (pc = "generateClarificationWithAI" /\ aiReply.failure) =>
           /\ pc' = "idle"
           /\ placeholders' = placeholders
           /\ isComplete' = FALSE
           /\ response'.kind \in
                { "external clarification",
                  "I'm not sure I caught that. Could you provide the **description**?" }
    ]_vars

\* The fetch of the Tier 2 call was rejected and the turn awaits the clarification
C5_FailureAbsorbed ==
  /\ pc = "generateClarificationWithAI"
  /\ aiReply.kind = "fetchRejects"
  /\ calls = <<"extractValueFromMessage", "extractWithAI">>

\* C6: a message that, trimmed and lower-cased, is a confirmation word runs
\* neither the extractor nor the external capability and stores nothing: the
\* values are unchanged, and the turn reports complete iff no field is
\* unfilled, otherwise it prompts for the current field.
C6_ConfirmationConsumesNothing ==
  [][ (pc = "idle" /\ trim(toLowerCase(userMessage')) \in ConfirmationWords) =>
        /\ pc' = "idle"
        /\ calls' = <<>>
        /\ placeholders' = placeholders
        /\ isComplete' <=> (FindUnfilled(placeholders) = 0)
        /\ FindUnfilled(placeholders) # 0 =>
             /\ response'.kind = "Great! Now, what's the **description**?"
             /\ response'.description = placeholders[FindUnfilled(placeholders)].description
    ]_vars

\* " OK " was answered with the prompt for the current field
C6_ConfirmationAdvanced ==
  /\ pc = "idle"
  /\ userMessage = <<" ","O","K"," ">>
  /\ FindUnfilled(placeholders) # 0
  /\ response.kind = "Great! Now, what's the **description**?"
  /\ calls = <<>>

\* C7: when no tier yields a value the turn returns a clarification with
\* every value unchanged and the same field current; the clarification is the
\* external one only when the capability is configured and answers with a
\* text that is not empty once trimmed, otherwise the template chosen by the
\* field's type (number, date, state code, generic).
C7_ClarificationWhenNoValue ==
  [][ LET p == placeholders[current']
          Template ==
            Response("I'm not sure I caught that. Could you provide the **description**?",
                     p.description, <<>>, "none",
                     IF p.type = "number" THEN "Just enter the number (e.g., 500000)."
                     ELSE IF p.type = "date"
                       THEN "Please use MM/DD/YYYY format (e.g., 12/23/2024)."
                     ELSE IF includes(p.name, <<"S","T","A","T","E">>)
                       THEN "Please use a 2-letter state code (e.g., CA, NY, TX)."
                     ELSE "Please enter the value clearly.")
          Stays ==
            /\ pc' = "idle"
            /\ placeholders' = placeholders
            /\ isComplete' = FALSE
            /\ FindUnfilled(placeholders') = current'
          answered == AI_ENABLED /\ aiReply'.kind = "ok" /\ trim(aiReply'.text) # <<>>
      IN /\ (/\ pc = "idle" /\ current' # 0 /\ ~AI_ENABLED
             /\ ~Truthy(extractValueFromMessage(userMessage', p))) =>
              Stays /\ response' = Template
         /\ pc = "generateClarificationWithAI" =>
              /\ Stays
              /\ response' = IF answered THEN AIClarification(trim(aiReply'.text))
                             ELSE Template
    ]_vars

\* The external clarification failed and the template for a date was returned
C7_TemplateGiven ==
  /\ pc = "idle"
  /\ Len(calls) > 0 /\ calls[Len(calls)] = "buildDefaultClarification"
  /\ "generateClarificationWithAI" \in {calls[j] : j \in 1..Len(calls)}
  /\ response.hint = "Please use MM/DD/YYYY format (e.g., 12/23/2024)."

----------------------------------------------------------------------------
\* Properties of detection (under SpecDetect)

\* C8: the detected list has no two fields of the same name, and each field
\* carries the type, the description and the literal bracket content of the
\* first marker of the text that resolves to its name.
C8_FirstMarkerWins ==
  stage = "detected" =>
    LET IsStart(j) ==
          /\ BracketMatchAt(text, j)
          /\ \A i \in {x \in 1..(j - 1) : text[x] = "["} :
               ~(BracketMatchAt(text, i) /\ NextClose(text, i) > j)
        Resolved(i) == ResolveMatch(text, i, NextClose(text, i))
        kept == {i \in {x \in 1..Len(text) : text[x] = "["} :
                   IsStart(i) /\ ~Resolved(i).skip}
        FirstOf(name) == MinOf({i \in kept : Resolved(i).field.name = name})
        Carries(f, i) ==
          /\ f.type = Resolved(i).field.type
          /\ f.description = Resolved(i).field.description
          /\ f.originalText = Sub(text, i + 1, NextClose(text, i) - 1)
    IN /\ \A a, b \in 1..Len(placeholders) :
            placeholders[a].name = placeholders[b].name => a = b
       /\ {placeholders[a].name : a \in 1..Len(placeholders)}
            = {Resolved(i).field.name : i \in kept}
       /\ \A a \in 1..Len(placeholders) :
            Carries(placeholders[a], FirstOf(placeholders[a].name))

\* C9: the fields of the detected list are in the order in which a marker
\* resolving to each name first occurs in the text, one field per name, and
\* detecting the text again gives the same list.
C9_FirstOccurrenceOrder ==
  stage = "detected" =>
    LET IsStart(j) ==
          /\ BracketMatchAt(text, j)
          /\ \A i \in {x \in 1..(j - 1) : text[x] = "["} :
               ~(BracketMatchAt(text, i) /\ NextClose(text, i) > j)
        Resolved(i) == ResolveMatch(text, i, NextClose(text, i))
        kept == {i \in {x \in 1..Len(text) : text[x] = "["} :
                   IsStart(i) /\ ~Resolved(i).skip}
        names == {Resolved(i).field.name : i \in kept}
        FirstOf(name) == MinOf({i \in kept : Resolved(i).field.name = name})
    IN /\ {placeholders[a].name : a \in 1..Len(placeholders)} = names
       /\ Len(placeholders) = Cardinality(names)
       /\ \A a, b \in 1..Len(placeholders) :
            a < b => FirstOf(placeholders[a].name) < FirstOf(placeholders[b].name)
       /\ detectPlaceholders(text) = placeholders

\* Three markers, the last two of one name, gave two fields in the order of the text
C9_RepeatedNameDetected ==
  /\ stage = "detected"
  /\ text = <<"[","C","l","o","s","i","n","g"," ","D","a","t","e","]","[","C","O","M","P","A","N","Y","_","N","A","M","E","]","[","C","o","m","p","a","n","y"," ","N","a","m","e","]">>
  /\ Len(placeholders) = 2
  /\ placeholders[1].name = <<"C","L","O","S","I","N","G","_","D","A","T","E">>
  /\ placeholders[2].name = <<"C","O","M","P","A","N","Y","_","N","A","M","E">>

\* C10: for every named marker [X] of the text (the first of its name), the
\* detected list has a field whose name is X normalized, whose value is unset
\* and whose originalText is the literal content X.
C10_NamedMarkerField ==
  stage = "detected" =>
    LET IsStart(j) ==
          /\ BracketMatchAt(text, j)
          /\ \A i \in {x \in 1..(j - 1) : text[x] = "["} :
               ~(BracketMatchAt(text, i) /\ NextClose(text, i) > j)
        Literal(i) == Sub(text, i + 1, NextClose(text, i) - 1)
        NameAt(i) == NormalizeName(trim(Literal(i)))
        named == {i \in {x \in 1..Len(text) : text[x] = "["} :
                    /\ IsStart(i)
                    /\ ~IsBlankContent(trim(Literal(i)))
                    /\ NameAt(i) # <<>>}
        firsts == {i \in named : \A k \in named : NameAt(k) = NameAt(i) => i <= k}
    IN \A i \in firsts :
         \E a \in 1..Len(placeholders) :
           /\ placeholders[a].name = NameAt(i)
           /\ placeholders[a].value = null
           /\ placeholders[a].originalText = Literal(i)

\* C20: a blank marker whose preceding text holds "incorporated in the State
\* of", and to whose context no earlier inference rule applies, is detected
\* as the field STATE with description "State", whose type is text.
C20_BlankStateMarkerIsText ==
  stage = "detected" =>
    \A i \in {x \in 1..Len(text) : text[x] = "["} :
      \A before \in {toLowerCase(Sub(text, i - ContextBefore, i - 1))} :
        \A context \in {toLowerCase(Sub(text, i - ContextBefore, NextClose(text, i) + ContextAfter))} :
          ( /\ BracketMatchAt(text, i)
            /\ \A j \in {x \in 1..(i - 1) : text[x] = "["} :
                 ~(BracketMatchAt(text, j) /\ NextClose(text, j) > i)
            /\ \A k \in (i + 1)..(NextClose(text, i) - 1) : text[k] = "_"
            /\ includes(before, <<"i","n","c","o","r","p","o","r","a","t","e","d"," ","i","n"," ","t","h","e"," ","s","t","a","t","e"," ","o","f">>)
            /\ ~(includes(context, <<"c","o","m","p","a","n","y">>)
                  /\ (includes(context, <<"n","a","m","e">>) \/ includes(context, <<"c","o","r","p","o","r","a","t","i","o","n">>)))
            /\ ~(includes(context, <<"i","n","v","e","s","t","o","r">>) /\ includes(context, <<"n","a","m","e">>))
            /\ ~includes(context, <<"$">>)
            /\ ~includes(context, <<"p","u","r","c","h","a","s","e"," ","a","m","o","u","n","t">>)
            /\ ~includes(context, <<"i","n","v","e","s","t","m","e","n","t">>)
            /\ ~includes(context, <<"d","a","t","e">>)
            /\ ~includes(context, <<"d","a","y"," ","o","f">>)
            /\ ~includes(context, <<"v","a","l","u","a","t","i","o","n"," ","c","a","p">>)
            /\ ~includes(context, <<"p","o","s","t","-","m","o","n","e","y">>) ) =>
              \E a \in 1..Len(placeholders) :
                /\ placeholders[a].name = <<"S","T","A","T","E">>
                /\ placeholders[a].type = "text"
                /\ placeholders[a].description = <<"S","t","a","t","e">>
                /\ placeholders[a].value = null

\* The blank marker after "incorporated in the State of" was detected as the
\* text field STATE
C20_StateFieldDetected ==
  /\ stage = "detected"
  /\ text = <<"i","n","c","o","r","p","o","r","a","t","e","d"," ","i","n"," ","t","h","e"," ","S","t","a","t","e"," ","o","f"," ","[","_","_","_","_","]">>
  /\ Len(placeholders) = 1
  /\ placeholders[1].name = <<"S","T","A","T","E">>
  /\ placeholders[1].type = "text"

\* C20 as stated: a blank marker whose preceding text holds "incorporated in
\* the State of", and to whose context no earlier inference rule applies, is
\* detected as a field of type state.
C20_BlankStateMarker ==
  stage = "detected" =>
    \A i \in {x \in 1..Len(text) : text[x] = "["} :
      \A before \in {toLowerCase(Sub(text, i - ContextBefore, i - 1))} :
        \A context \in {toLowerCase(Sub(text, i - ContextBefore, NextClose(text, i) + ContextAfter))} :
          ( /\ BracketMatchAt(text, i)
            /\ \A j \in {x \in 1..(i - 1) : text[x] = "["} :
                 ~(BracketMatchAt(text, j) /\ NextClose(text, j) > i)
            /\ \A k \in (i + 1)..(NextClose(text, i) - 1) : text[k] = "_"
            /\ includes(before, <<"i","n","c","o","r","p","o","r","a","t","e","d"," ","i","n"," ","t","h","e"," ","s","t","a","t","e"," ","o","f">>)
            /\ ~(includes(context, <<"c","o","m","p","a","n","y">>)
                  /\ (includes(context, <<"n","a","m","e">>) \/ includes(context, <<"c","o","r","p","o","r","a","t","i","o","n">>)))
            /\ ~(includes(context, <<"i","n","v","e","s","t","o","r">>) /\ includes(context, <<"n","a","m","e">>))
            /\ ~includes(context, <<"$">>)
            /\ ~includes(context, <<"p","u","r","c","h","a","s","e"," ","a","m","o","u","n","t">>)
            /\ ~includes(context, <<"i","n","v","e","s","t","m","e","n","t">>)
            /\ ~includes(context, <<"d","a","t","e">>)
            /\ ~includes(context, <<"d","a","y"," ","o","f">>)
            /\ ~includes(context, <<"v","a","l","u","a","t","i","o","n"," ","c","a","p">>)
            /\ ~includes(context, <<"p","o","s","t","-","m","o","n","e","y">>) ) =>
              \E a \in 1..Len(placeholders) :
                /\ placeholders[a].name = <<"S","T","A","T","E">>
                /\ placeholders[a].type = "state"

\* C21: a blank marker whose context window matches no inference rule gives
\* no field: every detected field is the field of another marker, and the
\* detected list is the list detected for the same text with that span left
\* in place but no longer a marker (its two brackets replaced by underscores).
C21_UnmatchedBlankIsSkipped ==
  stage = "detected" =>
    LET IsStart(j) ==
          /\ BracketMatchAt(text, j)
          /\ \A i \in {x \in 1..(j - 1) : text[x] = "["} :
               ~(BracketMatchAt(text, i) /\ NextClose(text, i) > j)
        starts == {j \in {x \in 1..Len(text) : text[x] = "["} : IsStart(j)}
        Unmatched(i, k) ==
          /\ IsBlankContent(trim(Sub(text, i + 1, k - 1)))
          /\ \A context \in {toLowerCase(Sub(text, i - ContextBefore, k + ContextAfter))} :
               /\ ~(includes(context, <<"c","o","m","p","a","n","y">>)
                     /\ (includes(context, <<"n","a","m","e">>) \/ includes(context, <<"c","o","r","p","o","r","a","t","i","o","n">>)))
               /\ ~(includes(context, <<"i","n","v","e","s","t","o","r">>) /\ includes(context, <<"n","a","m","e">>))
               /\ ~includes(context, <<"$">>)
               /\ ~includes(context, <<"p","u","r","c","h","a","s","e"," ","a","m","o","u","n","t">>)
               /\ ~includes(context, <<"i","n","v","e","s","t","m","e","n","t">>)
               /\ ~includes(context, <<"d","a","t","e">>)
               /\ ~includes(context, <<"d","a","y"," ","o","f">>)
               /\ ~includes(context, <<"v","a","l","u","a","t","i","o","n"," ","c","a","p">>)
               /\ ~includes(context, <<"p","o","s","t","-","m","o","n","e","y">>)
               /\ ~includes(context, <<"s","t","a","t","e"," ","o","f">>)
               /\ ~includes(context, <<"i","n","c","o","r","p","o","r","a","t","e","d"," ","i","n">>)
        OfOthers(i) ==
          {r.field.name : r \in {q \in {ResolveMatch(text, j, NextClose(text, j)) : j \in starts \ {i}} : ~q.skip}}
        Skipped(i, k) ==
          /\ \A a \in 1..Len(placeholders) : placeholders[a].name \in OfOthers(i)
          /\ detectPlaceholders([text EXCEPT ![i] = "_", ![k] = "_"]) = placeholders
    IN \A i \in starts : Unmatched(i, NextClose(text, i)) => Skipped(i, NextClose(text, i))

\* Two blank fields without a matching rule were skipped and the named marker
\* after them gave the only field
C21_BlankSkipped ==
  /\ stage = "detected"
  /\ text \in Clauses
  /\ Len(placeholders) = 1
  /\ placeholders[1].name = <<"T","I","T","L","E">>

\* C21 as stated: the detected list is the list detected for the text from
\* which the unmatched blank marker has been removed.
C21_BlankMarkerAbsent ==
  stage = "detected" =>
    LET IsStart(j) ==
          /\ BracketMatchAt(text, j)
          /\ \A i \in {x \in 1..(j - 1) : text[x] = "["} :
               ~(BracketMatchAt(text, i) /\ NextClose(text, i) > j)
        Unmatched(i, k) ==
          /\ IsBlankContent(trim(Sub(text, i + 1, k - 1)))
          /\ inferFromContext(ContextOf(text, i, k)) = NoInference
        Without(i, k) == SubSeq(text, 1, i - 1) \o SubSeq(text, k + 1, Len(text))
    IN \A i \in {x \in 1..Len(text) : text[x] = "["} :
         (IsStart(i) /\ Unmatched(i, NextClose(text, i))) =>
            detectPlaceholders(Without(i, NextClose(text, i))) = placeholders

----------------------------------------------------------------------------
\* Properties of regeneration and of the routes (under SpecSession)

\* C11: when the generate route has invoked the regenerator, the substitution
\* set generateDocx builds from the session's fields has exactly one entry per
\* field with a value, keyed by the literal bracket content of the field's
\* marker in the document (not by the normalized name) and carrying the
\* field's value; a field without a value contributes no entry.
C11_SubstitutionByOriginalText ==
  (http.route = "generate" /\ http.calls = <<"generateDocx">>) =>
    \A s \in DOMAIN sessions :
      LET txt == sessions[s].documentText
          phs == sessions[s].placeholders
          IsStart(j) ==
            /\ BracketMatchAt(txt, j)
            /\ \A i \in {x \in 1..(j - 1) : txt[x] = "["} :
                 ~(BracketMatchAt(txt, i) /\ NextClose(txt, i) > j)
          Resolved(i) == ResolveMatch(txt, i, NextClose(txt, i))
          kept == {i \in {x \in 1..Len(txt) : txt[x] = "["} : IsStart(i) /\ ~Resolved(i).skip}
          FirstOf(name) == MinOf({i \in kept : Resolved(i).field.name = name})
          Literal(i) == Sub(txt, i + 1, NextClose(txt, i) - 1)
      IN BuildData(deployment.generator, phs, {})
           = {<<Literal(FirstOf(phs[a].name)), phs[a].value>> :
                a \in {b \in 1..Len(phs) : phs[b].value # null}}

\* C12: round trip: when the fields detected in a document's text have all
\* been filled by chat turns and the document has been regenerated, the text
\* extracted again from the regenerated package contains the value of every
\* field and no bracket marker that resolves to the name of a filled field.
C12_RoundTrip ==
  (http.route = "generate" /\ http.status = 200) =>
    \A s \in DOMAIN sessions :
      \A out \in {extractTextFromDocx(http.body)} :
        LET phs == sessions[s].placeholders
            Resolved(i) == ResolveMatch(out.value, i, NextClose(out.value, i))
            filled == {phs[a].name : a \in {b \in 1..Len(phs) : Truthy(phs[b].value)}}
        IN /\ ~out.threw
           /\ \A a \in 1..Len(phs) : includes(out.value, phs[a].value)
           /\ \A i \in {x \in 1..Len(out.value) : out.value[x] = "["} :
                BracketMatchAt(out.value, i) =>
                  (Resolved(i).skip \/ Resolved(i).field.name \notin filled)

\* C13: the regenerated package differs from the original package only in the
\* substituted marker regions: the parts other than the document text are the
\* same, the paragraph has the same runs with the same properties, and every
\* run that holds no part of a marker has the same text.
C13_OnlyMarkersChange ==
  (http.route = "generate" /\ http.status = 200) =>
    \A f \in uploads :
      LET NoMarker(t) == \A i \in 1..Len(t) : t[i] \notin {"[", "]"}
          SameRuns(original, output) ==
            /\ Len(output) = Len(original)
            /\ \A k \in 1..Len(original) :
                 /\ output[k].rPr = original[k].rPr
                 /\ NoMarker(original[k].t) => output[k].t = original[k].t
      IN /\ http.body.parts = f.package.parts
         /\ SameRuns(f.package.document, http.body.document)

\* C14: every step that ends a generate request with an error leaves the
\* session store (field lists and conversation histories) and the stored
\* originals exactly as they were and returns an error without a document;
\* the same request repeated gets the same answer, and when the failure is
\* the original's (not found, unreadable, not renderable) a readable original
\* alone, with no chat turn, makes the request succeed.
C14_FailedGenerateKeepsSession ==
  [][ (http' # http /\ http'.route = "generate" /\ http'.status # 200) =>
        /\ sessions' = sessions
        /\ uploads' = uploads
        /\ http'.status \in {400, 404, 500}
        /\ http'.error # "none"
        /\ http'.body = NoPackage
        /\ \E sessionId \in {1, 2} :
             GenerateResponse(sessions', uploads', deployment'.generator, sessionId) = http'
        /\ \A s \in DOMAIN sessions' :
             (http'.status \in {404, 500} /\ EveryFilled(sessions'[s].placeholders)) =>
               \E package \in Packages :
                 GenerateResponse(sessions',
                                  {[name |-> <<sessions'[s].id, sessions'[s].originalFileName>>,
                                    package |-> package]},
                                  deployment'.generator, s).status = 200 ]_vars

\* A generate request of a completed session failed in rendering, and the
\* session still holds its filled field and its history
C14_RenderErrorReturned ==
  /\ http.route = "generate"
  /\ http.status = 500
  /\ http.calls = <<"generateDocx">>
  /\ Len(sessions) = 1
  /\ EveryFilled(sessions[1].placeholders)
  /\ Len(sessions[1].conversationHistory) = 2

\* C15: a generate request for a session invokes the regenerator only when
\* every field of the session has a value; when a field has none the request
\* is answered with status 400, an error that lists the descriptions of the
\* fields without a value in their order, no call of generateDocx and no
\* document.
C15_GenerateOnlyWhenFilled ==
  [][ \A sessionId \in DOMAIN sessions :
        Generate(sessionId) =>
          LET phs == sessions[sessionId].placeholders
              missing == {a \in 1..Len(phs) : phs[a].value = null}
              Kth(k) == CHOOSE a \in missing : Cardinality({b \in missing : b <= a}) = k
          IN /\ (\E c \in DOMAIN http'.calls : http'.calls[c] = "generateDocx") => missing = {}
             /\ http'.status = 200 => missing = {}
             /\ missing # {} =>
                  /\ http'.status = 400
                  /\ http'.error = "Please fill all placeholders. Missing: "
                  /\ http'.missing = [k \in 1..Cardinality(missing) |-> phs[Kth(k)].description]
                  /\ http'.calls = <<>>
                  /\ http'.body = NoPackage ]_vars

\* A generate request was rejected for a session with one field filled and
\* the other one named as missing
C15_MissingFieldNamed ==
  /\ http.route = "generate"
  /\ http.status = 400
  /\ Len(sessions) = 1
  /\ Len(sessions[1].placeholders) = 2
  /\ sessions[1].placeholders[1].value = <<"C","A">>
  /\ sessions[1].placeholders[2].value = null
  /\ http.missing = <<<<"S","t","a","t","e">>>>

\* C16: an upload of a readable .docx file in whose text detection finds no
\* field is answered with the input error (status 400, 'No placeholders
\* found'), creates no session and stores no file, and has called
\* extractTextFromDocx and detectPlaceholders once each and createSession never.
C16_NoFieldsUploadRejected ==
  [][ sessions = <<>> =>
      \A file \in Files :
        \A extracted \in {extractTextFromDocx(file.package)} :
          ( /\ Upload(file)
            /\ Sub(file.name, Len(file.name) - 4, Len(file.name)) = <<".", "d", "o", "c", "x">>
            /\ ~extracted.threw
            /\ Len(detectPlaceholders(extracted.value)) = 0 ) =>
              /\ http'.route = "upload"
              /\ http'.status = 400
              /\ http'.error = "No placeholders found in document."
              /\ http'.calls = <<"extractTextFromDocx", "detectPlaceholders">>
              /\ sessions' = sessions
              /\ sessions' = <<>>
              /\ uploads' = uploads ]_vars

\* An upload was rejected because its document has no field, and the store
\* holds no session
C16_UploadRejected ==
  /\ http.route = "upload"
  /\ http.status = 400
  /\ http.error = "No placeholders found in document."
  /\ sessions = <<>>
  /\ uploads = {}

\* C26: in a conversation whose turns are serialized (no other chat request
\* of the session is waiting when one starts, and the history so far
\* alternates between user and assistant), the field list a chat turn
\* processes is the list stored in the session, which for the first turn is
\* the list detection produced and afterwards the list the previous turn
\* returned; a turn that ends stores exactly the list the orchestrator
\* returned for it, and the page keeps that list for the next request.
C26_TurnReadsStoredList ==
  [][ \A s \in DOMAIN sessions \cap DOMAIN sessions' :
        LET before == sessions[s].conversationHistory
            after == sessions'[s].conversationHistory
            stored == sessions[s].placeholders
            Begins == Len(after) > Len(before) /\ after[Len(before) + 1].role = "user"
            Alternates ==
              \A k \in DOMAIN before :
                before[k].role = (IF k % 2 = 1 THEN "user" ELSE "assistant")
            Outputs(t) ==
              { (IF t.pc = "extractWithAI"
                   THEN AfterExtractWithAI(stored, t.current, AI_ENABLED, reply, t.calls)
                 ELSE AfterClarificationWithAI(stored, t.current, AI_ENABLED, reply,
                                               t.calls)).placeholders :
                  reply \in ChatReplies }
        IN /\ (pending = <<>> /\ before = <<>>) =>
                stored = detectPlaceholders(sessions[s].documentText)
           /\ (pending = <<>> /\ Begins) =>
                /\ placeholders = stored
                /\ Len(after) = Len(before) + 2 =>
                     /\ pending' = <<>>
                     /\ sessions'[s].placeholders =
                          processConversation(revision, after[Len(before) + 1].content, stored,
                                              AI_ENABLED).placeholders
                     /\ placeholders' = sessions'[s].placeholders
                /\ Len(after) = Len(before) + 1 =>
                     /\ Len(pending') = 1
                     /\ pending'[1].placeholders = stored
                     /\ sessions'[s].placeholders = stored
           /\ (Len(pending) = 1 /\ Alternates /\ ~Begins /\ pending' # pending) =>
                /\ pending[1].placeholders = stored
                /\ pending' = <<>> =>
                     /\ sessions'[s].placeholders \in Outputs(pending[1])
                     /\ placeholders' = sessions'[s].placeholders
                /\ pending' # <<>> => sessions'[s].placeholders = stored ]_vars

\* The second serialized turn of a session has ended: it filled the second
\* field of the list the first turn returned
C26_SecondTurnStored ==
  /\ pending = <<>>
  /\ 1 \in DOMAIN sessions
  /\ Len(sessions[1].conversationHistory) = 4
  /\ sessions[1].conversationHistory[3].role = "user"
  /\ Len(sessions[1].placeholders) = 2
  /\ sessions[1].placeholders[1].value # null
  /\ sessions[1].placeholders[2].value # null
  /\ placeholders = sessions[1].placeholders

\* C27: whenever a chat turn sends its request to the Tier 2 capability, the
\* request is the instruction context of the current field, then the last
\* entries (at most HistoryWindow) of the history the conversation had before
\* this message, in their order, then the new user message.
C27_RequestCarriesHistory ==
  [][ \A s \in DOMAIN sessions :
        \A t \in {pending'[k] : k \in DOMAIN pending' \ DOMAIN pending} :
          (t.session = s /\ t.pc = "extractWithAI") =>
            t.request = ExtractionRequest(t.message, t.placeholders[t.current],
                                          sessions[s].conversationHistory) ]_vars

\* C28: a generate request for a session whose fields are all filled finds
\* the document uploaded for that session: it never answers that the
\* original file was not found, and a document it returns is made from the
\* uploaded original.
C28_GenerateFindsOriginal ==
  \A s \in DOMAIN sessions :
    (http.route = "generate" /\ EveryFilled(sessions[s].placeholders)
       /\ http = GenerateResponse(sessions, uploads, deployment.generator, s)) =>
      /\ http.error # "Original file not found."
      /\ http.status = 200 =>
           \E f \in Files :
             /\ f.name = sessions[s].originalFileName
             /\ http = GenerateResponse(sessions, {[name |-> <<s, sessions[s].originalFileName>>,
                                                    package |-> f.package]},
                                        deployment.generator, s)

\* C29: under every interleaving of chat requests, every step leaves the
\* earlier entries of a session's history in place and in order and appends
\* only at the end: a request that starts appends its user message, a request
\* that returns appends its assistant reply as the last entry, and the two
\* are adjacent when the turn did not wait.  No message is lost: the history
\* holds one user message for every request started, those of the waiting
\* requests included, and one assistant reply for every request that returned.
C29_HistoryAppendOnly ==
  [][ \A s \in DOMAIN sessions :
        LET IsUser(m) == m.role = "user"
            IsAssistant(m) == m.role = "assistant"
            Waiting(t) == t.session = s
            Counted(history, queue) ==
              /\ Len(SelectSeq(history, IsUser)) =
                   Len(SelectSeq(history, IsAssistant)) + Len(SelectSeq(queue, Waiting))
              /\ \A k \in DOMAIN queue :
                   queue[k].session = s =>
                     \E h \in DOMAIN history :
                       history[h].role = "user" /\ history[h].content = queue[k].message
            Appended(before, after) ==
              /\ Len(after) >= Len(before)
              /\ SubSeq(after, 1, Len(before)) = before
              /\ Len(after) - Len(before) <= 2
              /\ Len(after) = Len(before) + 2 =>
                   /\ IsUser(after[Len(before) + 1])
                   /\ IsAssistant(after[Len(before) + 2])
                   /\ pending' = pending
              /\ Len(after) = Len(before) + 1 =>
                   \/ IsUser(after[Len(after)]) /\ Len(pending') = Len(pending) + 1
                   \/ IsAssistant(after[Len(after)]) /\ Len(pending') = Len(pending) - 1
              /\ Len(after) = Len(before) => Len(pending') = Len(pending)
        IN /\ s \in DOMAIN sessions'
           /\ Appended(sessions[s].conversationHistory, sessions'[s].conversationHistory)
           /\ Counted(sessions'[s].conversationHistory, pending') ]_vars

\* Two chat turns of a session overlapped: the second started while the
\* first was waiting for the external call, and both have returned
C29_OverlappedTurnsKept ==
  /\ pending = <<>>
  /\ 1 \in DOMAIN sessions
  /\ Len(sessions[1].conversationHistory) = 4
  /\ sessions[1].conversationHistory[1].role = "user"
  /\ sessions[1].conversationHistory[2].role = "user"
  /\ sessions[1].conversationHistory[1].content # sessions[1].conversationHistory[2].content
  /\ sessions[1].conversationHistory[3].role = "assistant"
  /\ sessions[1].conversationHistory[4].role = "assistant"
----------------------------------------------------------------------------
\* Properties of the session manager (under SpecStore)

\* C30: every createSession call leaves in the store the new session and
\* exactly those earlier sessions whose last update is at most 24 hours old,
\* unchanged; getSession and updateSession of an id that is not in the store
\* (never created, or removed by a cleanup) return null (0) and change
\* nothing, and of an id that is in the store they return that session.
C30_CleanupOnCreate ==
  [][ /\ (returned'.call = "createSession" /\ issued' = issued + 1) =>
           /\ issued' \in DOMAIN sessions'
           /\ sessions'[issued'].updatedAt = now
           /\ DOMAIN sessions' \subseteq DOMAIN sessions \cup {issued'}
           /\ \A k \in DOMAIN sessions :
                /\ k \in DOMAIN sessions' <=> now - sessions[k].updatedAt <= 24
                /\ k \in DOMAIN sessions' => sessions'[k] = sessions[k]
      /\ (returned' # returned /\ returned'.call \in {"getSession", "updateSession"}) =>
           IF returned'.id \in DOMAIN sessions
             THEN /\ returned'.value = returned'.id
                  /\ DOMAIN sessions' = DOMAIN sessions
                  /\ returned'.call = "updateSession" => sessions'[returned'.id].updatedAt = now
             ELSE /\ returned'.value = 0
                  /\ sessions' = sessions ]_vars

\* A third session was created more than 24 hours after the first one's last
\* update and within 24 hours of the second's: the first is gone, the other
\* two are kept, and an update of the first returned null
C30_ExpiredSessionRemoved ==
  /\ stage = "store"
  /\ issued = 3
  /\ DOMAIN sessions = {2, 3}
  /\ now - sessions[2].updatedAt > 0
  /\ returned = [call |-> "updateSession", id |-> 1, value |-> 0]

----------------------------------------------------------------------------
\* Properties of the typed values (under Spec)

\* C17: when the current field is a number field whose name contains AMOUNT,
\* the turn with message "$2M" extracts "2", returns the feedback that the
\* amount is too low and stores nothing; the turn with message "2000000"
\* extracts "2000000", stores "2,000,000" in the field and reports completion
\* exactly when no other field is unfilled; and whenever the value of such a
\* field changes, the stored value is a grouped number of at least 1000.
C17_AmountAtLeastThousand ==
  [][ LET IsAmount(q) == q.type = "number" /\ includes(q.name, <<"A", "M", "O", "U", "N", "T">>)
          AtLeastThousand(v) ==
            LET whole == Sub(v, 1, indexOfFrom(v \o <<".">>, <<".">>, 1) - 1)
                IsDigitAt(c) == IsDigit(c)
            IN /\ \A k \in 1..Len(v) : IsDigit(v[k]) \/ v[k] \in {",", "."}
               /\ Len(SelectSeq(whole, IsDigitAt)) >= 4
               /\ whole[1] # "0"
          TooLow(p) ==
            /\ extractValueFromMessage(userMessage', p) = <<"2">>
            /\ pc' = "idle"
            /\ response'.kind = "feedback"
            /\ response'.feedback = "That seems quite low for an investment amount."
            /\ placeholders' = placeholders
            /\ isComplete' = FALSE
          Stored(i) ==
            /\ extractValueFromMessage(userMessage', placeholders[i])
                 = <<"2", "0", "0", "0", "0", "0", "0">>
            /\ pc' = "idle"
            /\ placeholders'
                 = [placeholders EXCEPT ![i].value = <<"2", ",", "0", "0", "0", ",", "0", "0", "0">>]
            /\ isComplete' = (\A j \in 1..Len(placeholders) : j # i => placeholders[j].value # null)
            /\ isComplete' =>
                 response'.kind = "Got it! **description**: value. Perfect! All fields are complete."
      IN /\ ( /\ pc = "idle" /\ current' # 0 /\ IsAmount(placeholders[current'])
              /\ userMessage' = <<"$", "2", "M">> ) => TooLow(placeholders[current'])
         /\ ( /\ pc = "idle" /\ current' # 0 /\ IsAmount(placeholders[current'])
              /\ userMessage' = <<"2", "0", "0", "0", "0", "0", "0">> ) => Stored(current')
         /\ \A j \in 1..Len(placeholders) :
              (IsAmount(placeholders[j]) /\ placeholders'[j].value # placeholders[j].value) =>
                AtLeastThousand(placeholders'[j].value)
    ]_vars

\* The amount, the only field of its document, was filled with "2,000,000" by
\* the message "2000000" and the turn reported completion
C17_AmountStored ==
  /\ text = <<"P","a","y"," ","$","[","A","m","o","u","n","t","]">>
  /\ pc = "idle"
  /\ userMessage = <<"2","0","0","0","0","0","0">>
  /\ placeholders[1].value = <<"2",",","0","0","0",",","0","0","0">>
  /\ isComplete

\* C18: the value of every field of type date is unset or a string MM/DD/YYYY
\* whose month is 1..12 and whose day is a day of that month of that year.
C18_DateValuesAreCalendarDates ==
  \A i \in 1..Len(placeholders) :
    (placeholders[i].type = "date" /\ placeholders[i].value # null) =>
      LET v == placeholders[i].value
          Two(a, b) == 10 * DigitVal(a) + DigitVal(b)
          Real(month, day, year) ==
            /\ month \in 1..12
            /\ day >= 1
            /\ day <= (IF month = 2
                         THEN (IF (year % 4 = 0 /\ year % 100 # 0) \/ year % 400 = 0
                                 THEN 29 ELSE 28)
                       ELSE IF month \in {4, 6, 9, 11} THEN 30 ELSE 31)
      IN /\ Len(v) = 10
         /\ v[3] = "/" /\ v[6] = "/"
         /\ \A k \in {1, 2, 4, 5, 7, 8, 9, 10} : IsDigit(v[k])
         /\ Real(Two(v[1], v[2]), Two(v[4], v[5]), 100 * Two(v[7], v[8]) + Two(v[9], v[10]))

\* C19: when the current field is a state field (type state, or type text
\* with STATE in its name) and the turn extracts a value of two characters,
\* the value is stored if and only if its upper case is one of the 51 codes,
\* and the value then stored is in upper case; an extracted value of any
\* other length is not refused as an invalid state code.
C19_StateCodeRule ==
  [][ LET IsStateField(q) ==
            q.type = "state" \/ (q.type = "text" /\ includes(q.name, <<"S", "T", "A", "T", "E">>))
          Codes == {<<"A","L">>, <<"A","K">>, <<"A","Z">>, <<"A","R">>, <<"C","A">>, <<"C","O">>,
                    <<"C","T">>, <<"D","E">>, <<"F","L">>, <<"G","A">>, <<"H","I">>, <<"I","D">>,
                    <<"I","L">>, <<"I","N">>, <<"I","A">>, <<"K","S">>, <<"K","Y">>, <<"L","A">>,
                    <<"M","E">>, <<"M","D">>, <<"M","A">>, <<"M","I">>, <<"M","N">>, <<"M","S">>,
                    <<"M","O">>, <<"M","T">>, <<"N","E">>, <<"N","V">>, <<"N","H">>, <<"N","J">>,
                    <<"N","M">>, <<"N","Y">>, <<"N","C">>, <<"N","D">>, <<"O","H">>, <<"O","K">>,
                    <<"O","R">>, <<"P","A">>, <<"R","I">>, <<"S","C">>, <<"S","D">>, <<"T","N">>,
                    <<"T","X">>, <<"U","T">>, <<"V","T">>, <<"V","A">>, <<"W","A">>, <<"W","V">>,
                    <<"W","I">>, <<"W","Y">>, <<"D","C">>}
          Upper(v) == [k \in 1..Len(v) |-> UpperChar(v[k])]
          Extracted(i, v) ==
            Truthy(v) =>
              /\ pc' = "idle"
              /\ Len(v) = 2 =>
                   /\ (placeholders'[i].value # null) <=> (Upper(v) \in Codes)
                   /\ placeholders'[i].value # null => placeholders'[i].value = Upper(v)
              /\ Len(v) # 2 => response'.feedback # "That is not a valid US state code."
      IN /\ (pc = "idle" /\ current' # 0 /\ IsStateField(placeholders[current'])) =>
              \A v \in {extractValueFromMessage(userMessage', placeholders[current'])} :
                Extracted(current', v)
         /\ (pc = "extractWithAI" /\ IsStateField(placeholders[current])) =>
              \A v \in {extractWithAI(AI_ENABLED, aiReply').value} : Extracted(current, v)
    ]_vars

\* C22: formatting is idempotent on stored values: for every stored value x of
\* a field of type number or state, the formatting step of the revision that
\* serves the conversation gives format(x) = x, and so format(format(x)) = format(x).
C22_FormatIsIdempotent ==
  \A i \in 1..Len(placeholders) :
    LET Format(x) == IF revision = "unnamed/part_003"
                       THEN formatValue(x, placeholders[i])
                       ELSE formatInline(x, placeholders[i])
        Idempotent(x, once) == once = x /\ Format(once) = once
    IN (Truthy(placeholders[i].value) /\ placeholders[i].type \in {"number", "state"}) =>
          Idempotent(placeholders[i].value, Format(placeholders[i].value))

----------------------------------------------------------------------------
\* Properties of the external capability within a turn (under Spec)

\* C23: Tier 2 is called only in a turn of the revision with the external
\* capability configured, whose message is no confirmation word, that has a
\* current field and on which Tier 1 has run first and given no value; in a
\* turn where Tier 1 gives a value, or no field is current, or the message is
\* a confirmation word, or the capability is not configured, Tier 2 is
\* neither awaited nor among the calls of the turn.
C23_Tier2OnlyAfterEmptyTier1 ==
  [][ LET Asked == pc' = "extractWithAI" \/ \E k \in 1..Len(calls') : calls'[k] = "extractWithAI"
          Tier1Empty == ~Truthy(extractValueFromMessage(userMessage', placeholders'[current']))
      IN /\ (pc' = "extractWithAI" /\ pc # "extractWithAI") =>
              /\ pc = "idle"
              /\ calls' = <<"extractValueFromMessage">>
              /\ placeholders' = placeholders
         /\ Asked =>
              /\ AI_ENABLED
              /\ ~isConfirmation(userMessage')
              /\ current' # 0
              /\ current' = FindUnfilled(placeholders)
              /\ Tier1Empty
              /\ \A k \in 1..Len(calls') : calls'[k] = "extractWithAI" =>
                   (k > 1 /\ calls'[k - 1] = "extractValueFromMessage")
    ]_vars

\* Tier 1 found nothing in "x" and the turn awaits the Tier 2 call
C23_Tier2Awaited ==
  /\ pc = "extractWithAI"
  /\ AI_ENABLED
  /\ userMessage = <<"x">>
  /\ calls = <<"extractValueFromMessage">>

C24_SilentCallExpires ==
  (pc = "extractWithAI" /\ aiReply.kind = "silent") ~>
     ( /\ pc = "idle"
       /\ response.kind \in
            { "external clarification",
              "I'm not sure I caught that. Could you provide the **description**?" } )
====
